---- MODULE Spec2Model ----
(***************************************************************************)
(* A model of napari's asynchronous chunk loading core:                    *)
(*   - ChunkCache / ChunkLoader   (napari/utils/chunk_loader.py)           *)
(*   - OctreeChunkLoader          (napari/layers/image/experimental/       *)
(*                                 _octree_chunk_loader.py)                *)
(*   - OctreeMultiscaleSlice      (.../_octree_multiscale_slice.py)        *)
(* The specifications share the module's variables:                        *)
(*   SpecCache   direct add_chunk / get_chunk calls on a ChunkCache        *)
(*   Spec        the ChunkLoader with its executor and done-callbacks      *)
(*   SpecAsync   the same in asynchronous mode, one layer, lazy arrays     *)
(*   SpecThreads the same, a step per entry into and exit from the cache   *)
(*   SpecBlocks  synchronous_loading blocks entered and left               *)
(*   SpecOctree  OctreeChunkLoader.get_drawable_chunks selection passes    *)
(*   SpecCoverage, SpecOctreeStay  passes from chosen starting states      *)
(*   SpecRace    _cancel_futures statement by statement against            *)
(*               on_chunk_loaded                                           *)
(*   SpecSlice   OctreeMultiscaleSlice.get_visible_chunks calls            *)
(* and, of napari/utils/events/containers/_list.py:                        *)
(*   SpecList    insert and __delitem__ calls on an EventedList            *)
(*   SpecDel     one __delitem__ call on an EventedList of any content     *)
(*   SpecNest    calls on the child lists of a NestableEventedList         *)
(* and, of napari/plugins/io.py:                                           *)
(*   SpecRead    one read_data_with_plugins call, loop turn by loop turn   *)
(***************************************************************************)
EXTENDS Integers, Sequences, FiniteSets, TLC

\* ------------------------------------------------------------------ bounds
\* ChunkCache maxsize in bytes (psutil total * CACHE_MEM_FRACTION in the code).
CacheCapacity == 5
\* Largest array.nbytes a chunk can have; one more than it would still fit.
MaxNbytes == 6
\* Number of ChunkRequests created in one behaviour.
MaxRequests == 2
\* The same for the loader with one layer and asynchronous loads only.
MaxAsyncRequests == 3
\* synchronous_loading blocks nested in each other.
MaxNesting == 4
\* ImageConfig.tile_size, in pixels.
TileSize == 2
\* Widest view, in pixels; views may be up to two pixels inside out.
MaxWidth == 42
\* Most child lists of a NestableEventedList, and the longest of them.
MaxChildren == 2
MaxChildLen == 2
\* Executor workers (NAPARI_ASYNC_THREADS).
NUM_WORKERS == 2
\* Longest EventedList.
MaxListLen == 3
\* Most napari_get_reader implementations registered.
MaxReaders == 4
\* Cap on the calls of one reader function.
MaxReaderCalls == 2

\* Layers (layer_id); a layer's data has data_id = id(layer.data).
LayerIds == {1, 2}
\* Indices (slices) into a layer's data.
Indices == {1, 2}
\* What request.array is: an in-memory ndarray, a lazy (dask-like) array, or a
\* lazy array whose computation raises.
ArrayKinds == {"ndarray", "lazy", "lazy_bad"}

VARIABLES
    chunks,        \* ChunkCache.chunks: LRU-ordered entries, least recent first
    cacheRaised,   \* the last add_chunk raised ValueError('value too large')
    recency,       \* history: keys in order of last successful access
    nbytes,        \* array.nbytes of the chunk at each index
    synchronous,   \* ChunkLoader.synchronous
    requests,      \* every ChunkRequest created, with its future's state
    futures,       \* ChunkLoader.futures: data_id -> list of futures
    layer_map,     \* ChunkLoader.layer_map: layer_ids with a weakref
    alive,         \* layers not yet garbage-collected
    chunk_loaded,  \* requests the chunk_loaded event was emitted with, in order
    lastCall,      \* history: the last load_chunk call and what it returned
    octree,        \* Octree: the OctreeChunk at each location, once created
    octData,       \* what the octree's level arrays are: ndarray or lazy
    loads,         \* the state of the future of the load of each location
    _futures,      \* OctreeChunkLoader._futures: locations with a saved future
    _last_drawable,\* OctreeChunkLoader._last_drawable: the dict the last pass
                   \* built, which is also the list it returned
    lastPass,      \* history: how the last get_drawable_chunks call ended
    cancelRun,     \* where a _cancel_futures call run step by step is
    _list,         \* EventedList._list
    events,        \* the events the last EventedList call emitted, in order
    listRaised,    \* the exception the last EventedList call raised
    impls,         \* the napari_get_reader implementations, in call order
    skip_impls,    \* read_data_with_plugins: the implementations to skip
    readerCalls,   \* history: how often the reader of each implementation ran
    readOut,       \* read_data_with_plugins: where it is and what it returned
    syncBlocks,    \* the synchronous_loading blocks entered and not yet left,
                   \* innermost last, and history: how the last one ended
    _octree_level, \* OctreeMultiscaleSlice._octree_level
    lastVisible,   \* history: the last get_visible_chunks call
    lastDel,       \* history: the list before the one __delitem__ and its key
    nested,        \* a NestableEventedList of lists: its child lists, in order
    bubbled        \* the events of the last call on a child, as the child
                   \* emitted them and as the parent emitted them again

cacheVars == <<chunks, cacheRaised, recency, nbytes>>
loaderVars == <<synchronous, requests, futures, layer_map, alive, chunk_loaded, lastCall>>
octVars == <<octree, octData, loads, _futures, _last_drawable, lastPass, cancelRun>>
listVars == <<_list, events, listRaised>>
readVars == <<impls, skip_impls, readerCalls, readOut>>
sliceVars == <<_octree_level, lastVisible>>
nestVars == <<nested, bubbled>>
otherVars == <<syncBlocks, sliceVars, lastDel, nestVars>>
vars == <<cacheVars, loaderVars, octVars, listVars, readVars, otherVars>>

Last(s) == s[Len(s)]

\* ------------------------------------------------------------ ChunkRequest
DataId(layer) == layer

RequestKey(data_id, index) == <<data_id, index>>

Keys == {RequestKey(DataId(l), i) : l \in LayerIds, i \in Indices}

\* ------------------------------------------------------------- ChunkCache
GetSizeofChunk(key) == nbytes[key[2]]

RECURSIVE CurrSize(_)
CurrSize(c) == IF c = <<>> THEN 0 ELSE Head(c).size + CurrSize(Tail(c))

CacheKeys(c) == {c[i].key : i \in 1..Len(c)}

RECURSIVE KeySeq(_)
KeySeq(c) == IF c = <<>> THEN <<>> ELSE <<Head(c).key>> \o KeySeq(Tail(c))

RECURSIVE Without(_, _)
Without(c, key) ==
    IF c = <<>> THEN <<>>
    ELSE IF Head(c).key = key THEN Without(Tail(c), key)
    ELSE <<Head(c)>> \o Without(Tail(c), key)

Entry(c, key) == CHOOSE e \in {c[i] : i \in 1..Len(c)} : e.key = key

\* A cache that evicts at most one entry per insert.
PopOnce(c, size) ==
    IF c # <<>> /\ CurrSize(c) + size > CacheCapacity THEN Tail(c) ELSE c

\* Cache.__setitem__'s loop: while currsize + size > maxsize: popitem(), and
\* LRUCache.popitem pops the least recently used entry.
RECURSIVE PopItems(_, _)
PopItems(c, size) ==
    IF c # <<>> /\ CurrSize(c) + size > CacheCapacity
    THEN PopItems(Tail(c), size)
    ELSE c

\* A cache that admits a payload larger than itself, evicting everything else.
LRUSetItemAdmit(c, key, obj) ==
    LET size == GetSizeofChunk(key) IN
    [raised |-> FALSE,
     chunks |-> Append(Without(PopItems(c, size), key),
                       [key |-> key, obj |-> obj, size |-> size])]

\* LRUCache.__setitem__: chunks[key] = payload.
LRUSetItem(c, key, obj) ==
    LET size == GetSizeofChunk(key)
        grows == key \notin CacheKeys(c) \/ Entry(c, key).size < size
        c1 == IF grows THEN PopItems(c, size) ELSE c
    IN  IF size > CacheCapacity
        THEN [raised |-> TRUE, chunks |-> c]
        ELSE [raised |-> FALSE,
              chunks |-> Append(Without(c1, key), [key |-> key, obj |-> obj, size |-> size])]

\* A get that does not count as an access (no move to the end of the order).
GetWithoutTouch(c, key) ==
    IF key \in CacheKeys(c)
    THEN [obj |-> Entry(c, key).obj, chunks |-> c]
    ELSE [obj |-> 0, chunks |-> c]

\* LRUCache.get: the payload or None (0), and the order after the access.
LRUGet(c, key) ==
    IF key \in CacheKeys(c)
    THEN [obj |-> Entry(c, key).obj, chunks |-> Append(Without(c, key), Entry(c, key))]
    ELSE [obj |-> 0, chunks |-> c]

\* recency after a successful access of key.
RECURSIVE DropKey(_, _)
DropKey(s, key) ==
    IF s = <<>> THEN <<>>
    ELSE IF Head(s) = key THEN DropKey(Tail(s), key)
    ELSE <<Head(s)>> \o DropKey(Tail(s), key)

Touch(s, key) == Append(DropKey(s, key), key)

\* ChunkCache.add_chunk(request), called directly.
add_chunk(key) ==
    LET r == LRUSetItem(chunks, key, 1) IN
    /\ chunks' = r.chunks
    /\ cacheRaised' = r.raised
    /\ recency' = IF r.raised THEN recency ELSE Touch(recency, key)
    /\ UNCHANGED <<nbytes, loaderVars, octVars, listVars, readVars, otherVars>>

\* ChunkCache.get_chunk(request), called directly.
get_chunk(key) ==
    LET r == LRUGet(chunks, key) IN
    /\ chunks' = r.chunks
    /\ recency' = IF key \in CacheKeys(chunks) THEN Touch(recency, key) ELSE recency
    /\ UNCHANGED <<cacheRaised, nbytes, loaderVars, octVars, listVars, readVars, otherVars>>

LoaderInit ==
    /\ synchronous = TRUE
    /\ requests = <<>>
    /\ futures = [d \in {DataId(l) : l \in LayerIds} |-> <<>>]
    /\ layer_map = {}
    /\ alive = LayerIds
    /\ chunk_loaded = <<>>
    /\ lastCall = [req |-> 0]

\* ------------------------------------------------------------ ChunkLoader
\* The part of the loader the pure operators below transform.
LoaderState == [requests |-> requests, chunks |-> chunks,
                chunk_loaded |-> chunk_loaded, futures |-> futures]

SeqRange(seq) == {seq[i] : i \in 1..Len(seq)}

\* ChunkRequest.__init__, with the state of the future it may get later.
NewRequest(layer, index, array) ==
    [layer_id |-> layer, data_id |-> DataId(layer), index |-> index,
     key |-> RequestKey(DataId(layer), index), array |-> array,
     state |-> "created", payload |-> 0,
     cached |-> FALSE, layerAtDone |-> FALSE, superseded |-> FALSE]

\* ChunkLoader.create_request(layer, indices, array): the request is the
\* last of st.requests afterwards.
CreateRequest(st, layer, index, array) ==
    [st EXCEPT !.requests = Append(@, NewRequest(layer, index, array))]

\* ChunkLoader._get_layer_for_request: the layer, or None (0).
GetLayerForRequest(req) ==
    IF req.layer_id \notin layer_map THEN 0
    ELSE IF req.layer_id \in alive THEN req.layer_id ELSE 0

\* A callback that takes a cancelled future for a finished one.
DoneIgnoringCancel(st, r) ==
    LET req == st.requests[r]
        layer == GetLayerForRequest(req)
        marked == [st EXCEPT !.requests[r].layerAtDone = (layer # 0)]
        put == LRUSetItem(st.chunks, req.key, r)
        added == [marked EXCEPT !.chunks = put.chunks, !.requests[r].cached = TRUE]
    IN  IF req.state = "FAILED" THEN marked
        ELSE IF put.raised THEN marked
        ELSE IF layer = 0 THEN added
        ELSE [added EXCEPT !.chunk_loaded = Append(@, r)]

\* A callback that resolves the layer before it touches the cache.
DoneLayerFirst(st, r) ==
    LET req == st.requests[r]
        layer == GetLayerForRequest(req)
        marked == [st EXCEPT !.requests[r].layerAtDone = (layer # 0)]
        put == LRUSetItem(st.chunks, req.key, r)
        added == [marked EXCEPT !.chunks = put.chunks, !.requests[r].cached = TRUE]
    IN  IF req.state = "CANCELLED" THEN marked
        ELSE IF req.state = "FAILED" THEN marked
        ELSE IF layer = 0 THEN marked
        ELSE IF put.raised THEN marked
        ELSE [added EXCEPT !.chunk_loaded = Append(@, r)]

\* ChunkLoader._done(future): the callback of the future of request r.
Done(st, r) ==
    LET req == st.requests[r]
        layer == GetLayerForRequest(req)
        marked == [st EXCEPT !.requests[r].layerAtDone = (layer # 0)]
        put == LRUSetItem(st.chunks, req.key, r)
        added == [marked EXCEPT !.chunks = put.chunks, !.requests[r].cached = TRUE]
    IN  IF req.state = "CANCELLED" THEN marked      \* CancelledError: return
        ELSE IF req.state = "FAILED" THEN marked    \* result() re-raises the worker's error
        ELSE IF put.raised THEN marked              \* ValueError out of add_chunk
        ELSE IF layer = 0 THEN added                \* layer was deleted: return
        ELSE [added EXCEPT !.chunk_loaded = Append(@, r)]

\* Future.cancel(): True when the future was pending or already cancelled.
CancelSucceeds(state) == state \in {"PENDING", "CANCELLED"}

\* The cancel() calls of _clear_pending, in list order; cancelling a pending
\* future runs its done-callback at once.
RECURSIVE CancelAll(_, _)
CancelAll(st, flist) ==
    IF flist = <<>> THEN st
    ELSE LET r == Head(flist) IN
         CancelAll(IF st.requests[r].state = "PENDING"
                   THEN Done([st EXCEPT !.requests[r].state = "CANCELLED"], r)
                   ELSE st,
                   Tail(flist))

\* A _clear_pending that cancels nothing.
ClearNothing(st, data_id) == st

\* ChunkLoader._clear_pending(data_id):
\*     future_list[:] = [x for x in future_list if x.cancel()]
ClearPending(st, data_id) ==
    LET flist == st.futures[data_id]
        kept == SelectSeq(flist, LAMBDA r : CancelSucceeds(st.requests[r].state))
    IN  [CancelAll(st, flist) EXCEPT !.futures[data_id] = kept]

\* A _load_async that does not clear the pending futures first.
LoadAsyncNoClear(st, r) ==
    LET req == st.requests[r]
        got == LRUGet(st.chunks, req.key)
    IN  IF got.obj # 0
        THEN [st EXCEPT !.chunks = got.chunks,
                        !.requests[r].state = "hit",
                        !.requests[r].payload = got.obj]
        ELSE [st EXCEPT !.requests[r].state = "PENDING",
                        !.futures[req.data_id] = Append(@, r)]

\* A _load_async that does not look in the cache.
LoadAsyncNoCache(st, r) ==
    LET req == st.requests[r]
        st1 == ClearPending(st, req.data_id)
    IN  [st1 EXCEPT !.requests[r].state = "PENDING",
                    !.futures[req.data_id] = Append(@, r)]

\* A _load_async that looks in the cache first and clears the pending futures
\* only on a miss.
LoadAsyncClearOnMiss(st, r) ==
    LET req == st.requests[r]
        got == LRUGet(st.chunks, req.key)
        st1 == ClearPending(st, req.data_id)
    IN  IF got.obj # 0
        THEN [st EXCEPT !.chunks = got.chunks,
                        !.requests[r].state = "hit",
                        !.requests[r].payload = got.obj]
        ELSE [st1 EXCEPT !.requests[r].state = "PENDING",
                         !.futures[req.data_id] = Append(@, r)]

\* History: the tasks of a data source that are executing when a newer task
\* of the data source is submitted are superseded by it.
MarkSuperseded(reqs, data_id) ==
    [q \in 1..Len(reqs) |->
        IF reqs[q].data_id = data_id /\ reqs[q].state = "RUNNING"
        THEN [reqs[q] EXCEPT !.superseded = TRUE] ELSE reqs[q]]

\* ChunkLoader._load_async(request).
LoadAsync(st, r) ==
    LET req == st.requests[r]
        st1 == ClearPending(st, req.data_id)
        got == LRUGet(st1.chunks, req.key)
    IN  IF got.obj # 0
        THEN [st1 EXCEPT !.chunks = got.chunks,
                         !.requests[r].state = "hit",
                         !.requests[r].payload = got.obj]
        ELSE [st1 EXCEPT !.requests = [MarkSuperseded(@, req.data_id)
                                          EXCEPT ![r].state = "PENDING"],
                         !.futures[req.data_id] = Append(@, r)]

\* A load_chunk that ignores self.synchronous.
LoadChunkIgnoringFlag(st, sync, r) ==
    LET req == st.requests[r] IN
    IF req.array = "ndarray"
    THEN [st EXCEPT !.requests[r].state = "returned", !.requests[r].payload = r]
    ELSE LoadAsync(st, r)

\* A load_chunk that clears the pending futures of the data source before it
\* looks at self.synchronous.
LoadChunkClearsFirst(st, sync, r) ==
    LET req == st.requests[r]
        st1 == ClearPending(st, req.data_id)
    IN  IF sync \/ req.array = "ndarray"
        THEN IF req.array = "lazy_bad"
             THEN [st1 EXCEPT !.requests[r].state = "raised"]
             ELSE [st1 EXCEPT !.requests[r].state = "returned",
                              !.requests[r].payload = r]
        ELSE LoadAsync(st, r)

\* ChunkLoader.load_chunk(request) with self.synchronous = sync.
LoadChunk(st, sync, r) ==
    LET req == st.requests[r]
        in_memory == req.array = "ndarray"
    IN  IF sync \/ in_memory
        THEN IF req.array = "lazy_bad"
             THEN [st EXCEPT !.requests[r].state = "raised"]   \* np.asarray raises
             ELSE [st EXCEPT !.requests[r].state = "returned",
                             !.requests[r].payload = r]
        ELSE LoadAsync(st, r)

\* What load_chunk handed back to its caller.
ReturnValue(state) ==
    IF state \in {"returned", "hit"} THEN "request"
    ELSE IF state = "raised" THEN "raise"
    ELSE "none"

SetLoaderState(st) ==
    /\ requests' = st.requests
    /\ chunks' = st.chunks
    /\ chunk_loaded' = st.chunk_loaded
    /\ futures' = st.futures

\* Layers are interchangeable, so they make their first request in the order
\* of their ids.
FirstUse == {l \in LayerIds : \A k \in LayerIds : k < l => k \in layer_map}

\* A layer asks for a chunk of its data:
\*     request = CHUNK_LOADER.create_request(layer, indices, array)
\*     CHUNK_LOADER.load_chunk(request)
load_chunk_within(limit, layer, index, array) ==
    LET r == Len(requests) + 1
        key == RequestKey(DataId(layer), index)
        st == LoadChunk(CreateRequest(LoaderState, layer, index, array), synchronous, r)
    IN  /\ Len(requests) < limit
        /\ layer \in alive
        /\ layer \in FirstUse
        /\ layer_map' = layer_map \cup {layer}
        /\ SetLoaderState(st)
        /\ lastCall' = [req |-> r, sync |-> synchronous,
                        hit |-> IF key \in CacheKeys(chunks)
                                THEN Entry(chunks, key).obj ELSE 0,
                        priorCached |-> \E q \in 1..Len(requests) :
                                          requests[q].key = key /\ requests[q].cached,
                        result |-> ReturnValue(st.requests[r].state),
                        submitted |-> Len(st.futures[DataId(layer)]) > 0
                                      /\ Last(st.futures[DataId(layer)]) = r,
                        cancelled |-> {q \in 1..Len(requests) :
                                         /\ requests[q].state = "PENDING"
                                         /\ st.requests[q].state = "CANCELLED"},
                        dropped |-> {q \in 1..Len(requests) :
                                       /\ requests[q].state \in {"PENDING", "RUNNING"}
                                       /\ q \in SeqRange(futures[requests[q].data_id])
                                       /\ q \notin SeqRange(st.futures[requests[q].data_id])}]
        /\ UNCHANGED <<cacheRaised, recency, nbytes, synchronous, alive, octVars, listVars, readVars, otherVars>>

load_chunk(layer, index, array) == load_chunk_within(MaxRequests, layer, index, array)

Running == {r \in 1..Len(requests) : requests[r].state = "RUNNING"}

\* The executor hands a queued task to a free worker.
Start(r) ==
    /\ requests[r].state = "PENDING"
    /\ Cardinality(Running) < NUM_WORKERS
    /\ requests' = [requests EXCEPT ![r].state = "RUNNING"]
    /\ UNCHANGED <<cacheVars, synchronous, futures, layer_map, alive, chunk_loaded, lastCall, octVars, listVars, readVars, otherVars>>

\* A worker that swallows the error of np.asarray and returns the request.
WorkerSwallowsError(req) == [req EXCEPT !.state = "FINISHED"]

\* _chunk_loader_worker(request): request.array = np.asarray(request.array).
ChunkLoaderWorker(req) ==
    IF req.array = "lazy_bad" THEN [req EXCEPT !.state = "FAILED"]
    ELSE [req EXCEPT !.state = "FINISHED"]

\* A worker finishes its task: the future is finished and its done-callback
\* (_done) runs.
WorkerFinish(r) ==
    /\ requests[r].state = "RUNNING"
    /\ SetLoaderState(Done([LoaderState EXCEPT !.requests[r] = ChunkLoaderWorker(@)], r))
    /\ UNCHANGED <<cacheRaised, recency, nbytes, synchronous, layer_map, alive, lastCall, octVars, listVars, readVars, otherVars>>

\* A layer is garbage-collected: its weakref no longer resolves. The loader
\* looks at a layer only in the done-callback of one of its requests, so the
\* deletions that matter are those of a layer with a load outstanding.
DeleteLayer(layer) ==
    /\ layer \in alive
    /\ \E r \in 1..Len(requests) :
          requests[r].layer_id = layer /\ requests[r].state \in {"PENDING", "RUNNING"}
    /\ alive' = alive \ {layer}
    /\ UNCHANGED <<cacheVars, synchronous, requests, futures, layer_map, chunk_loaded, lastCall, octVars, listVars, readVars, otherVars>>

\* CHUNK_LOADER.synchronous = enabled.
SetSynchronous(enabled) ==
    /\ synchronous # enabled
    /\ synchronous' = enabled
    /\ UNCHANGED <<cacheVars, requests, futures, layer_map, alive, chunk_loaded, lastCall, octVars, listVars, readVars, otherVars>>

\* ----------------------------------------------------- ChunkLoader threads
\* The loader's two threads, a step per entry into and exit from a ChunkCache
\* method. The GUI thread runs load_chunk; the executor's thread finishes a
\* future and runs its done-callback. No lock is taken anywhere in
\* chunk_loader.py, so the guards below are only those of the control flow.
\* A request in state "GETTING" has the GUI thread inside cache.get_chunk, a
\* request in state "ADDING" has the callback thread inside cache.add_chunk.
InCacheGet == {r \in 1..Len(requests) : requests[r].state = "GETTING"}

InCacheAdd == {r \in 1..Len(requests) : requests[r].state = "ADDING"}

\* _load_async up to its call of self.cache.get_chunk(request).
LoadAsyncEnter(st, r) ==
    [ClearPending(st, st.requests[r].data_id) EXCEPT !.requests[r].state = "GETTING"]

\* _load_async from the return of self.cache.get_chunk(request).
LoadAsyncLeave(st, r) ==
    LET req == st.requests[r]
        got == LRUGet(st.chunks, req.key)
    IN  IF got.obj # 0
        THEN [st EXCEPT !.chunks = got.chunks,
                        !.requests[r].state = "hit",
                        !.requests[r].payload = got.obj]
        ELSE [st EXCEPT !.requests = [MarkSuperseded(@, req.data_id)
                                         EXCEPT ![r].state = "PENDING"],
                        !.futures[req.data_id] = Append(@, r)]

\* The GUI thread calls load_chunk for a lazy array in asynchronous mode and
\* gets as far as the cache lookup.
GuiEntersGet(layer, index) ==
    LET r == Len(requests) + 1 IN
    /\ Len(requests) < MaxAsyncRequests
    /\ ~synchronous
    /\ InCacheGet = {}
    /\ layer \in alive
    /\ layer \in FirstUse
    /\ layer_map' = layer_map \cup {layer}
    /\ SetLoaderState(LoadAsyncEnter(CreateRequest(LoaderState, layer, index, "lazy"), r))
    /\ UNCHANGED <<cacheRaised, recency, nbytes, synchronous, alive, lastCall, octVars, listVars, readVars, otherVars>>

\* The cache lookup of the GUI thread returns and load_chunk runs to its end.
GuiLeavesGet(r) ==
    /\ r \in InCacheGet
    /\ SetLoaderState(LoadAsyncLeave(LoaderState, r))
    /\ UNCHANGED <<cacheRaised, recency, nbytes, synchronous, layer_map, alive, lastCall, octVars, listVars, readVars, otherVars>>

\* A worker finishes its task, the executor's thread sets the future's result
\* and runs _done as far as self.cache.add_chunk(request). The one thread
\* runs one callback at a time.
CallbackEntersAdd(r) ==
    /\ requests[r].state = "RUNNING"
    /\ InCacheAdd = {}
    /\ requests' = [requests EXCEPT ![r].state = "ADDING"]
    /\ UNCHANGED <<cacheVars, synchronous, futures, layer_map, alive, chunk_loaded, lastCall, octVars, listVars, readVars, otherVars>>

\* add_chunk returns and _done runs to its end.
CallbackLeavesAdd(r) ==
    /\ r \in InCacheAdd
    /\ SetLoaderState(Done([LoaderState EXCEPT !.requests[r] = ChunkLoaderWorker(@)], r))
    /\ UNCHANGED <<cacheRaised, recency, nbytes, synchronous, layer_map, alive, lastCall, octVars, listVars, readVars, otherVars>>

\* synchronous_loading(enabled), a generator-based context manager with no
\* try/finally around its yield:
\*     previous = CHUNK_LOADER.synchronous
\*     CHUNK_LOADER.synchronous = enabled
\*     yield
\*     CHUNK_LOADER.synchronous = previous
\* A frame of syncBlocks.stack is a generator suspended at its yield: previous
\* is its local, before is history (the flag when the block was entered).
EnterBlock(enabled) ==
    /\ Len(syncBlocks.stack) < MaxNesting
    /\ syncBlocks' = [syncBlocks EXCEPT
                         !.stack = Append(@, [previous |-> synchronous, before |-> synchronous]),
                         !.ended = "none"]
    /\ synchronous' = enabled
    /\ UNCHANGED <<cacheVars, requests, futures, layer_map, alive, chunk_loaded, lastCall, octVars, listVars, readVars, sliceVars, lastDel, nestVars>>

\* The body of the innermost block ends normally: the generator is resumed
\* and runs its last statement.
ExitBlock ==
    /\ syncBlocks.stack # <<>>
    /\ LET frame == Last(syncBlocks.stack) IN
        /\ synchronous' = frame.previous
        /\ syncBlocks' = [stack |-> SubSeq(syncBlocks.stack, 1, Len(syncBlocks.stack) - 1),
                          ended |-> "normal", before |-> frame.before]
    /\ UNCHANGED <<cacheVars, requests, futures, layer_map, alive, chunk_loaded, lastCall, octVars, listVars, readVars, sliceVars, lastDel, nestVars>>

\* The body of the innermost block raises: the exception is thrown into the
\* generator at its yield, nothing catches it there, and it leaves the
\* generator without the last statement having run.
BodyRaises ==
    /\ syncBlocks.stack # <<>>
    /\ LET frame == Last(syncBlocks.stack) IN
        syncBlocks' = [stack |-> SubSeq(syncBlocks.stack, 1, Len(syncBlocks.stack) - 1),
                       ended |-> "raised", before |-> frame.before]
    /\ UNCHANGED <<cacheVars, synchronous, requests, futures, layer_map, alive, chunk_loaded, lastCall, octVars, listVars, readVars, sliceVars, lastDel, nestVars>>

\* ------------------------------------------------------------------ Octree
\* Tiles per level, finest level (0) first; every level is one row of tiles
\* (an image of 64 x 128 pixels with tile size 64, halved per level: levels of
\* 64 x 128, 32 x 64 and 16 x 32 pixels).
LevelCols == <<2, 1, 1>>

NumLevels == Len(LevelCols)

\* OctreeLocation: (level_index, row, col).
Locations == {<<l, 0, c>> : l \in 0..(NumLevels - 1), c \in 0..(LevelCols[1] - 1)}

InGrid(loc) == loc[1] \in 0..(NumLevels - 1) /\ loc[2] = 0 /\ loc[3] \in 0..(LevelCols[loc[1] + 1] - 1)

Grid == {loc \in Locations : InGrid(loc)}

Root == <<NumLevels - 1, 0, 0>>

\* How many levels up _get_family looks for ancestors.
NUM_ANCESTORS_LEVELS == 3

\* An OctreeChunk that was not created yet / as created: no data, not loading.
NoChunk == [exists |-> FALSE, in_memory |-> FALSE, loading |-> FALSE]

\* OctreeChunk.needs_load.
NeedsLoad(chunk) == ~chunk.in_memory /\ ~chunk.loading

\* A data setter that leaves the loading flag as it is.
SetDataKeepsLoading(chunk) == [chunk EXCEPT !.in_memory = TRUE]

\* OctreeChunk.data = payload: the chunk is in memory, no longer loading.
SetData(chunk) == [chunk EXCEPT !.in_memory = TRUE, !.loading = FALSE]

\* OctreeLevel.get_chunk(row, col, create=True).
CreateChunk(os, loc) == [os EXCEPT !.chunk[loc].exists = TRUE]

\* Octree.get_children(chunk, create=False, in_memory=True): the chunks one
\* level finer that cover the chunk, exist and are in memory, in tile order.
RECURSIVE SortedLocs(_)
SortedLocs(S) ==
    IF S = {} THEN <<>>
    ELSE LET m == CHOOSE x \in S : \A y \in S : x[3] <= y[3]
         IN  <<m>> \o SortedLocs(S \ {m})

GetChildren(os, loc) ==
    SortedLocs({c \in Grid : /\ c[1] = loc[1] - 1
                             /\ c[2] \in {2 * loc[2], 2 * loc[2] + 1}
                             /\ c[3] \in {2 * loc[3], 2 * loc[3] + 1}
                             /\ os.chunk[c].exists
                             /\ os.chunk[c].in_memory})

\* The location num levels above loc: coordinates are halved per level.
RECURSIVE Ancestor(_, _)
Ancestor(loc, num) ==
    IF num = 0 THEN loc
    ELSE Ancestor(<<loc[1] + 1, loc[2] \div 2, loc[3] \div 2>>, num - 1)

\* Octree.get_ancestors(chunk, num_levels): the chunks of up to num_levels
\* coarser levels above the chunk, walking up from it.
AncestorLocs(loc, num_levels) ==
    LET stop == IF NumLevels - 1 - loc[1] < num_levels THEN NumLevels - 1 - loc[1]
                ELSE num_levels
    IN  [i \in 1..stop |-> Ancestor(loc, i)]

RECURSIVE CreateAll(_, _)
CreateAll(os, locs) ==
    IF locs = <<>> THEN os ELSE CreateAll(CreateChunk(os, Head(locs)), Tail(locs))

\* ------------------------------------------------------- OctreeChunkLoader
\* The state a selection pass works on; raised names the exception that ended
\* the pass, ret is the value of the last _load_chunk, wanted collects the
\* chunks the coverage lists kept, cancelled the locations whose future
\* _cancel_futures called cancel() on, syncIdeal the ideal chunks the last loop
\* loaded synchronously, loadOrder the chunks _load_chunk was called with.
OctState ==
    [chunk |-> octree, fut |-> loads, futmap |-> _futures,
     last_drawable |-> _last_drawable, drawable |-> <<>>, memory |-> <<>>,
     keep |-> <<>>, wanted |-> {}, ret |-> FALSE, submitted |-> {}, raised |-> "none",
     cancelled |-> {}, syncIdeal |-> {}, loadOrder |-> <<>>]

\* chunk_loader.load_chunk(request): satisfied at once when loading is
\* synchronous or the data is an ndarray already, else a future.
LoaderSatisfies == synchronous \/ octData = "ndarray"

\* OctreeChunkLoader._load_chunk(octree_chunk).
OctLoadChunk(os, loc) ==
    IF os.chunk[loc].in_memory \/ os.chunk[loc].loading
    THEN [os EXCEPT !.raised = "AssertionError"]
    ELSE LET marked == [os EXCEPT !.chunk[loc].loading = TRUE,
                                  !.loadOrder = Append(@, loc)] IN
         IF LoaderSatisfies
         THEN [marked EXCEPT !.chunk[loc] = SetData(@), !.ret = TRUE]
         ELSE [marked EXCEPT !.fut[loc] = "PENDING",
                             !.futmap = @ \cup {loc},
                             !.submitted = @ \cup {loc},
                             !.ret = FALSE]

\* A _load_if_needed that calls _load_chunk without asking needs_load.
RECURSIVE LoadIfNeededUnguarded(_, _)
LoadIfNeededUnguarded(os, cs) ==
    IF cs = <<>> \/ os.raised # "none" THEN os
    ELSE LET c == Head(cs)
             m1 == IF os.chunk[c].in_memory
                   THEN [os EXCEPT !.memory = Append(@, c)] ELSE os
             ld == OctLoadChunk(m1, c)
             m2 == IF ld.raised = "none" /\ ld.ret
                   THEN [ld EXCEPT !.memory = Append(@, c)] ELSE ld
         IN  LoadIfNeededUnguarded(m2, Tail(cs))

\* A _load_if_needed that returns every chunk it was given.
RECURSIVE LoadIfNeededAll(_, _)
LoadIfNeededAll(os, cs) ==
    IF cs = <<>> \/ os.raised # "none" THEN os
    ELSE LET c == Head(cs)
             m1 == [os EXCEPT !.memory = Append(@, c)]
             m2 == IF NeedsLoad(m1.chunk[c]) THEN OctLoadChunk(m1, c) ELSE m1
         IN  LoadIfNeededAll(m2, Tail(cs))

\* OctreeChunkLoader._load_if_needed(chunks): os.memory collects the result.
RECURSIVE LoadIfNeeded(_, _)
LoadIfNeeded(os, cs) ==
    IF cs = <<>> \/ os.raised # "none" THEN os
    ELSE LET c == Head(cs)
             m1 == IF os.chunk[c].in_memory
                   THEN [os EXCEPT !.memory = Append(@, c)] ELSE os
             ld == OctLoadChunk(m1, c)
             m2 == IF NeedsLoad(m1.chunk[c])
                   THEN IF ld.raised = "none" /\ ld.ret
                        THEN [ld EXCEPT !.memory = Append(@, c)] ELSE ld
                   ELSE m1
         IN  LoadIfNeeded(m2, Tail(cs))

InSeq(x, seq) == \E i \in 1..Len(seq) : seq[i] = x

\* drawable[chunk] = 1 for every chunk of a list: a dict keeps first positions.
\* Adding to drawable without looking whether the chunk is already in it.
AddAllAgain(drawable, cs) == drawable \o cs

RECURSIVE AddAll(_, _)
AddAll(drawable, cs) ==
    IF cs = <<>> THEN drawable
    ELSE AddAll(IF InSeq(Head(cs), drawable) THEN drawable ELSE Append(drawable, Head(cs)),
                Tail(cs))

\* OctreeChunkLoader._load_and_add(drawable, chunks).
LoadAndAdd(os, cs) ==
    LET r == LoadIfNeeded([os EXCEPT !.memory = <<>>], cs) IN
    IF r.raised # "none" THEN r
    ELSE [r EXCEPT !.drawable = AddAll(@, r.memory)]

\* OctreeChunkLoader._get_family(ideal_chunk): children + ancestors; the
\* ancestors are created.
GetFamily(os, ideal) == GetChildren(os, ideal) \o AncestorLocs(ideal, NUM_ANCESTORS_LEVELS)

\* keep_chunk that keeps every family member.
KeepChunkAll(loc, ideal, drawn_set) == TRUE

\* keep_chunk of _get_coverage.
KeepChunk(loc, ideal, drawn_set) ==
    IF loc[1] < ideal[1] THEN loc \in drawn_set ELSE TRUE

\* _get_coverage without the early return for a drawn ideal chunk.
GetCoverageNoShortcut(os, ideal, drawn_set) ==
    LET family == GetFamily(os, ideal)
        created == CreateAll(os, AncestorLocs(ideal, NUM_ANCESTORS_LEVELS))
        keep == SelectSeq(family, LAMBDA c : KeepChunk(c, ideal, drawn_set))
    IN  [created EXCEPT !.keep = IF os.chunk[ideal].in_memory
                                  THEN Append(keep, ideal) ELSE keep]

\* _get_coverage that appends the ideal chunk whether or not it is in memory.
GetCoverageAlwaysAppend(os, ideal, drawn_set) ==
    IF os.chunk[ideal].in_memory /\ ideal \in drawn_set
    THEN [os EXCEPT !.keep = <<ideal>>]
    ELSE LET family == GetFamily(os, ideal)
             created == CreateAll(os, AncestorLocs(ideal, NUM_ANCESTORS_LEVELS))
             keep == SelectSeq(family, LAMBDA c : KeepChunk(c, ideal, drawn_set))
         IN  [created EXCEPT !.keep = Append(keep, ideal)]

\* _get_coverage that creates every child of the ideal chunk and keeps the
\* whole family.
GetCoverageWithChildren(os, ideal, drawn_set) ==
    LET children == SortedLocs({c \in Grid : c[1] = ideal[1] - 1 /\ Ancestor(c, 1) = ideal})
        family == children \o AncestorLocs(ideal, NUM_ANCESTORS_LEVELS)
    IN  [CreateAll(os, family) EXCEPT !.keep = family]

\* OctreeChunkLoader._get_coverage(ideal_chunk, drawn_set): os.keep is the list.
GetCoverage(os, ideal, drawn_set) ==
    IF os.chunk[ideal].in_memory /\ ideal \in drawn_set
    THEN [os EXCEPT !.keep = <<ideal>>]
    ELSE LET family == GetFamily(os, ideal)
             created == CreateAll(os, AncestorLocs(ideal, NUM_ANCESTORS_LEVELS))
             keep == SelectSeq(family, LAMBDA c : KeepChunk(c, ideal, drawn_set))
         IN  [created EXCEPT !.keep = IF os.chunk[ideal].in_memory
                                       THEN Append(keep, ideal) ELSE keep]

\* The loop of get_drawable_chunks over the ideal chunks: coverage, load, add.
RECURSIVE CoverAll(_, _, _)
CoverAll(os, drawn_set, ideals) ==
    IF ideals = <<>> \/ os.raised # "none" THEN os
    ELSE LET cov == GetCoverage(os, Head(ideals), drawn_set)
             kept == {cov.keep[i] : i \in 1..Len(cov.keep)}
         IN  CoverAll(LoadAndAdd([cov EXCEPT !.wanted = @ \cup kept], cov.keep),
                      drawn_set, Tail(ideals))

\* The calls of _get_coverage in that loop, one record each: the state the
\* call began in, the state it returned in (keep is the returned list) and
\* the state after _load_and_add of the returned list.
RECURSIVE CoverSteps(_, _, _)
CoverSteps(os, drawn_set, ideals) ==
    IF ideals = <<>> \/ os.raised # "none" THEN <<>>
    ELSE LET cov == GetCoverage(os, Head(ideals), drawn_set)
             kept == {cov.keep[i] : i \in 1..Len(cov.keep)}
             after == LoadAndAdd([cov EXCEPT !.wanted = @ \cup kept], cov.keep)
         IN  <<[ideal |-> Head(ideals), drawn_set |-> drawn_set,
                before |-> os, cov |-> cov, after |-> after]>>
             \o CoverSteps(after, drawn_set, Tail(ideals))

\* "location not in drawable" of _cancel_futures: drawable holds OctreeChunks
\* (drawable[chunk] = 1), location is an OctreeLocation, so no location is
\* ever found in it.
LocationInDrawable(loc, drawable) == FALSE

\* A _cancel_futures that leaves every future alone.
CancelNothing(os, started) ==
    [os EXCEPT !.fut = [loc \in Grid |->
                          IF loc \in started /\ os.fut[loc] = "PENDING"
                          THEN "RUNNING" ELSE os.fut[loc]]]

\* OctreeChunkLoader._cancel_futures(drawable). A future submitted earlier in
\* this pass may have been started by a worker meanwhile (started): cancel()
\* then fails. The saved future is deleted either way.
CancelFutures(os, started) ==
    IF os.raised # "none" THEN os
    ELSE LET stale == {loc \in os.futmap : ~LocationInDrawable(loc, os.drawable)} IN
         [os EXCEPT !.fut = [loc \in Grid |->
                                IF loc \in stale /\ os.fut[loc] = "PENDING"
                                THEN IF loc \in started THEN "RUNNING" ELSE "CANCELLED"
                                ELSE os.fut[loc]],
                    !.futmap = @ \ stale,
                    !.cancelled = stale]

\* The last loop of get_drawable_chunks: load the ideal chunks that need it;
\* drawable is a dict, so drawable.append raises AttributeError.
RECURSIVE LoadIdeal(_, _)
LoadIdeal(os, ideals) ==
    IF ideals = <<>> \/ os.raised # "none" THEN os
    ELSE LET c == Head(ideals)
             ld == OctLoadChunk(os, c)
             nxt == IF NeedsLoad(os.chunk[c])
                    THEN IF ld.raised = "none" /\ ld.ret
                         THEN [ld EXCEPT !.raised = "AttributeError",
                                         !.syncIdeal = @ \cup {c}]
                         ELSE ld
                    ELSE os
         IN  LoadIdeal(nxt, Tail(ideals))

\* get_drawable_chunks up to and including the cancellation of stale futures.
Selected(os, drawn_set, ideals) ==
    CoverAll(LoadAndAdd(CreateChunk(os, Root), <<Root>>), drawn_set, ideals)

\* OctreeChunkLoader.get_drawable_chunks(drawn_set, ideal_chunks), from the
\* cancellation of stale futures on; sel is the state after the selection.
\* The end of the pass with the ideal chunks loaded before the cancellation.
FinishPassLoadFirst(sel, ideals, started) ==
    LET ld == LoadIdeal(sel, ideals)
        can == CancelFutures(ld, started)
    IN  IF can.raised # "none" THEN can
        ELSE [can EXCEPT !.last_drawable = can.drawable]

FinishPass(sel, ideals, started) ==
    LET can == CancelFutures(sel, started)
        set == IF can.raised # "none" THEN can
               ELSE [can EXCEPT !.last_drawable = can.drawable]
    IN  LoadIdeal(set, ideals)

\* The ideal chunks of a view: the tiles first..last of one level, in tile
\* order, or none (the intersection of the view with the level); and, as the
\* method takes any list, lists that name one chunk twice.
IdealLists ==
    {<<>>} \cup
    {[i \in 1..(last - first + 1) |-> <<l, 0, first + i - 1>>] :
        l \in 0..(NumLevels - 1), first \in 0..(LevelCols[1] - 1), last \in 0..(LevelCols[1] - 1)}
    \cup {<<loc, loc>> : loc \in Locations}

ViewLists == {ideals \in IdealLists : \A i \in 1..Len(ideals) : InGrid(ideals[i])}

\* The chunks whose membership in drawn_set a pass looks at: the ideal chunks
\* and their children. The visual draws only chunks that are in memory.
DrawnSets(ideals) ==
    SUBSET {loc \in Grid :
              /\ octree[loc].exists /\ octree[loc].in_memory
              /\ \E i \in 1..Len(ideals) :
                    loc = ideals[i] \/ (loc[1] < ideals[i][1] /\ Ancestor(loc, 1) = ideals[i])}

\* The state in which the loop over the ideal chunks begins.
CoverStart(ideals) ==
    LoadAndAdd(CreateChunk(CreateAll(OctState, ideals), Root), <<Root>>)

\* Every call of _get_coverage that a pass beginning in the current state makes.
CoverageCalls ==
    UNION {UNION {LET steps == CoverSteps(CoverStart(ideals), drawn_set, ideals)
                  IN  {steps[i] : i \in 1..Len(steps)} :
                  drawn_set \in DrawnSets(ideals)} :
           ideals \in ViewLists}

\* The futures submitted during the selection that are still queued.
QueuedInPass(sel) == {loc \in sel.submitted : sel.fut[loc] = "PENDING"}

\* Every pass that can begin in the current state: its arguments, the state
\* before the cancellation (sel) and the state it ends in (out).
PassResults ==
    UNION {UNION {LET sel == Selected(CreateAll(OctState, ideals), drawn_set, ideals) IN
                  {[ideals |-> ideals, drawn_set |-> drawn_set, sel |-> sel,
                    out |-> FinishPass(sel, ideals, started)] :
                       started \in SUBSET QueuedInPass(sel)} :
                  drawn_set \in DrawnSets(ideals)} :
           ideals \in ViewLists}

\* The chunks a pass selected: the permanent chunk, the kept family members
\* and the ideal chunks.
SelectedLocs(out, ideals) ==
    {Root} \cup out.wanted \cup {ideals[i] : i \in 1..Len(ideals)}

\* The pass is over. lastPass notes how it ended, whether the root chunk was
\* in memory when it began, which locations had a saved future when it
\* began that it neither had as an ideal chunk nor kept as coverage, which
\* selected locations had cancel() called on their future, and which ideal
\* chunks the last loop loaded synchronously.
LastPassOf(out, ideals) ==
    [raised |-> out.raised,
     rootBefore |-> octree[Root].in_memory,
     unwanted |-> {loc \in _futures :
                     loc \notin out.wanted /\ ~InSeq(loc, ideals)},
     lost |-> out.cancelled \cap SelectedLocs(out, ideals),
     syncIdeal |-> out.syncIdeal]

PassEnds(out, ideals) ==
    /\ octree' = out.chunk
    /\ loads' = out.fut
    /\ _futures' = out.futmap
    /\ _last_drawable' = out.last_drawable
    /\ lastPass' = LastPassOf(out, ideals)

\* One selection pass: the visual asks which chunks to draw. Workers may start
\* some of the loads the pass has just queued before it cancels stale futures.
get_drawable_chunks(drawn_set, ideals) ==
    LET sel == Selected(CreateAll(OctState, ideals), drawn_set, ideals) IN
    /\ \E started \in SUBSET QueuedInPass(sel) : PassEnds(FinishPass(sel, ideals, started), ideals)
    /\ UNCHANGED <<cacheVars, loaderVars, octData, cancelRun, listVars, readVars, otherVars>>

\* The executor hands the queued load of a location to a worker.
OctStart(loc) ==
    /\ loads[loc] = "PENDING"
    /\ loads' = [loads EXCEPT ![loc] = "RUNNING"]
    /\ UNCHANGED <<cacheVars, loaderVars, octree, octData, _futures, _last_drawable, lastPass, cancelRun, listVars, readVars, otherVars>>

\* A del self._futures[location] with no handler around it.
DelFutureUnguarded(futmap, loc) ==
    [futmap |-> futmap \ {loc}, missing |-> loc \notin futmap,
     raised |-> loc \notin futmap]

\* try: del self._futures[location]
\* except KeyError: LOGGER.debug(...)
DelFuture(futmap, loc) ==
    [futmap |-> futmap \ {loc}, missing |-> loc \notin futmap, raised |-> FALSE]

\* OctreeChunkLoader.on_chunk_loaded(octree_chunk): del self._futures[location],
\* a missing future is not an error.
OnChunkLoaded(futmap, loc) == DelFuture(futmap, loc).futmap

\* The load of a location finishes and the chunk is delivered to the layer:
\* the payload is stored on the chunk and the loader forgets the future.
OctFinish(loc) ==
    /\ loads[loc] = "RUNNING"
    /\ loads' = [loads EXCEPT ![loc] = "FINISHED"]
    /\ octree' = [octree EXCEPT ![loc] = SetData(@)]
    /\ _futures' = OnChunkLoaded(_futures, loc)
    /\ cancelRun' = [cancelRun EXCEPT !.raised = @ \/ DelFuture(_futures, loc).raised]
    /\ UNCHANGED <<cacheVars, loaderVars, octData, _last_drawable, lastPass, listVars, readVars, otherVars>>

\* The load of a location fails: materialization raises in the worker, or
\* the layer of the request is gone when the future is done. ChunkLoader._done
\* emits no chunk_loaded then, so nothing is delivered to the octree.
OctFail(loc) ==
    /\ loads[loc] = "RUNNING"
    /\ loads' = [loads EXCEPT ![loc] = "FAILED"]
    /\ UNCHANGED <<cacheVars, loaderVars, octree, octData, _futures, _last_drawable, lastPass, cancelRun, listVars, readVars, otherVars>>

\* _cancel_futures(drawable) run statement by statement, so that the callback
\* of a finishing load (OctFinish) can come between two of its statements.
\* cancelRun.todo is what is left of list(self._futures.items()), pc is the
\* statement the loop is at, done and missing are history: the locations the
\* loop is through with and those whose future was gone at the del.
CancelIdle == [pc |-> "idle", todo |-> <<>>, drawable |-> <<>>,
               done |-> {}, missing |-> {}, raised |-> FALSE]

\* for location, future in list(self._futures.items()):
CancelBegins ==
    /\ cancelRun.pc = "idle"
    /\ ~cancelRun.raised
    /\ _futures # {}
    /\ cancelRun' = [cancelRun EXCEPT !.pc = "cancel", !.todo = SortedLocs(_futures),
                                      !.drawable = _last_drawable,
                                      !.done = {}, !.missing = {}]
    /\ UNCHANGED <<cacheVars, loaderVars, octree, octData, loads, _futures, _last_drawable, lastPass, listVars, readVars, otherVars>>

\* if location not in drawable: success = future.cancel()
CancelCalls ==
    /\ cancelRun.pc = "cancel"
    /\ cancelRun.todo # <<>>
    /\ LET loc == Head(cancelRun.todo) IN
        IF LocationInDrawable(loc, cancelRun.drawable)
        THEN /\ cancelRun' = [cancelRun EXCEPT !.todo = Tail(@)]
             /\ loads' = loads
        ELSE /\ cancelRun' = [cancelRun EXCEPT !.pc = "del"]
             /\ loads' = [loads EXCEPT ![loc] = IF @ = "PENDING" THEN "CANCELLED" ELSE @]
    /\ UNCHANGED <<cacheVars, loaderVars, octree, octData, _futures, _last_drawable, lastPass, listVars, readVars, otherVars>>

\* try: del self._futures[location] / except KeyError: log
CancelDeletes ==
    /\ cancelRun.pc = "del"
    /\ LET loc == Head(cancelRun.todo)
           del == DelFuture(_futures, loc)
       IN  /\ _futures' = IF del.raised THEN _futures ELSE del.futmap
           /\ cancelRun' = [cancelRun EXCEPT
                                !.pc = IF del.raised THEN "idle" ELSE "cancel",
                                !.todo = IF del.raised THEN <<>> ELSE Tail(@),
                                !.done = @ \cup {loc},
                                !.missing = IF del.missing THEN @ \cup {loc} ELSE @,
                                !.raised = del.raised]
    /\ UNCHANGED <<cacheVars, loaderVars, octree, octData, loads, _last_drawable, lastPass, listVars, readVars, otherVars>>

\* The loop is over; the method logs the counts and returns.
CancelReturns ==
    /\ cancelRun.pc = "cancel"
    /\ cancelRun.todo = <<>>
    /\ cancelRun' = [cancelRun EXCEPT !.pc = "idle"]
    /\ UNCHANGED <<cacheVars, loaderVars, octree, octData, loads, _futures, _last_drawable, lastPass, listVars, readVars, otherVars>>

\* ---------------------------------------------------- OctreeMultiscaleSlice
\* level.info.scale of level i: each level halves the resolution of the one
\* below it.
LevelScale(i) == 2 ^ i

\* max_tiles = 5 in _get_octree_level.
max_tiles == 5

\* (num_tiles / level.info.scale) < max_tiles with num_tiles = width /
\* tile_size, both true divisions of floats. For a positive tile size and a
\* scale that is a power of two the quotient is below max_tiles exactly when
\* width is below max_tiles * tile_size * scale.
FewTiles(i, width) == width < max_tiles * TileSize * LevelScale(i)

\* A search that falls back on the finest level.
RECURSIVE FirstLevelOrFinest(_, _)
FirstLevelOrFinest(i, width) ==
    IF i >= NumLevels THEN 0
    ELSE IF FewTiles(i, width) THEN i
    ELSE FirstLevelOrFinest(i + 1, width)

\* for i, level in enumerate(self._octree.levels): ... return i
\* return self._octree.num_levels - 1
RECURSIVE FirstLevel(_, _)
FirstLevel(i, width) ==
    IF i >= NumLevels THEN NumLevels - 1
    ELSE IF FewTiles(i, width) THEN i
    ELSE FirstLevel(i + 1, width)

\* OctreeMultiscaleSlice._get_octree_level(corners_2d, auto_level), width
\* being corners_2d[1][1] - corners_2d[0][1].
GetOctreeLevel(level, width, auto_level) ==
    IF ~auto_level THEN level ELSE FirstLevel(0, width)

\* OctreeMultiscaleSlice.get_visible_chunks(corners_2d, auto_level): the
\* level of the intersection becomes the current level when auto_level is set.
get_visible_chunks(width, auto_level) ==
    LET level_index == GetOctreeLevel(_octree_level, width, auto_level) IN
    /\ _octree_level' = IF auto_level THEN level_index ELSE _octree_level
    /\ lastVisible' = [called |-> TRUE, auto_level |-> auto_level, width |-> width,
                       before |-> _octree_level, level_index |-> level_index]
    /\ UNCHANGED <<cacheVars, loaderVars, octVars, listVars, readVars, syncBlocks, lastDel, nestVars>>

\* ------------------------------------------------------------ EventedList
\* The items put into a list.
Items == {1, 2}

\* An optional int (a slice bound, which may be None): <<>> is None, <<n>> is n.
PyNone == <<>>

\* Ints passed as index or slice bound: up to two beyond either end.
KeyInts == (0 - MaxListLen - 2)..(MaxListLen + 1)

SliceBounds == {PyNone} \cup {<<n>> : n \in KeyInts}

SliceSteps == {PyNone} \cup {<<n>> : n \in (0 - 2)..2}

\* The keys of __delitem__: an int (in start) or slice(start, stop, step).
DelKeys ==
    {[kind |-> "int", start |-> <<n>>, stop |-> PyNone, step |-> PyNone] : n \in KeyInts}
    \cup {[kind |-> "slice", start |-> a, stop |-> b, step |-> c] :
              a \in SliceBounds, b \in SliceBounds, c \in SliceSteps}

\* Python's "x or default" for an optional int: None and 0 are falsy.
OrElse(x, default) == IF x = PyNone \/ x[1] = 0 THEN default ELSE x[1]

\* list(range(start, stop, step)), step # 0.
RECURSIVE PyRange(_, _, _)
PyRange(start, stop, step) ==
    IF (step > 0 /\ start < stop) \/ (step < 0 /\ start > stop)
    THEN <<start>> \o PyRange(start + step, stop, step)
    ELSE <<>>

\* sorted(indices, reverse=True) of distinct ints.
RECURSIVE SortedReverse(_)
SortedReverse(S) ==
    IF S = {} THEN <<>>
    ELSE LET m == CHOOSE x \in S : \A y \in S : y <= x
         IN  <<m>> \o SortedReverse(S \ {m})

\* EventedList._delitem_indices(key), without the parent of each index.
DelitemIndices(list, key) ==
    IF key.kind = "int"
    THEN <<IF key.start[1] >= 0 THEN key.start[1] ELSE key.start[1] + Len(list)>>
    ELSE LET start0 == OrElse(key.start, 0)
             stop0 == OrElse(key.stop, Len(list))
             step == OrElse(key.step, 1)
             start == IF start0 < 0 THEN Len(list) + start0 ELSE start0
             stop == IF stop0 < 0 THEN Len(list) + stop0 ELSE stop0
         IN  PyRange(start, stop, step)
\* list[index] exists: Python takes indices -len..len-1.
ValidIndex(list, index) == 0 - Len(list) <= index /\ index < Len(list)

\* The position (from 1) of list[index].
Position(list, index) == IF index < 0 THEN index + Len(list) + 1 ELSE index + 1

\* list[index].
PyItem(list, index) == list[Position(list, index)]

\* The list after list.pop(index), index valid.
PyPop(list, index) ==
    LET p == Position(list, index) IN
    [i \in 1..(Len(list) - 1) |-> IF i < p THEN list[i] ELSE list[i + 1]]

\* The list after list.insert(index, value): the index is clamped to the ends.
PyInsert(list, index, value) ==
    LET n == Len(list)
        at == IF index < 0 THEN (IF index + n < 0 THEN 0 ELSE index + n)
              ELSE (IF index > n THEN n ELSE index)
    IN  [i \in 1..(n + 1) |->
            IF i <= at THEN list[i] ELSE IF i = at + 1 THEN value ELSE list[i - 1]]

\* An emitted event; snap is the list as the listeners see it when called,
\* value is 0 for the events that carry none.
ListEvent(type, index, value, list) ==
    [type |-> type, index |-> index, value |-> value, snap |-> list]

\* The call's view of the list: what it has emitted and whether it raised.
ListState == [list |-> _list, events |-> <<>>, raised |-> "none"]

\* The body of __delitem__'s loop for one index:
\*     parent.events.removing(index=index)
\*     item = parent._list.pop(index)
\*     parent.events.removed(index=index, value=item)
RemoveAt(ls, index) ==
    LET e1 == [ls EXCEPT !.events = Append(@, ListEvent("removing", index, 0, ls.list))] IN
    IF ~ValidIndex(ls.list, index)
    THEN [e1 EXCEPT !.raised = "IndexError"]
    ELSE LET popped == PyPop(ls.list, index) IN
         [e1 EXCEPT !.list = popped,
                    !.events = Append(@, ListEvent("removed", index,
                                                   PyItem(ls.list, index), popped))]

\* EventedList.__delitem__(key): the indices are deleted from the end.
RECURSIVE RemoveAll(_, _)
RemoveAll(ls, indices) ==
    IF indices = <<>> \/ ls.raised # "none" THEN ls
    ELSE RemoveAll(RemoveAt(ls, Head(indices)), Tail(indices))

DelItem(ls, key) ==
    LET indices == DelitemIndices(ls.list, key) IN
    RemoveAll(ls, SortedReverse({indices[i] : i \in 1..Len(indices)}))

\* EventedList.insert(index, value).
Insert(ls, index, value) ==
    LET list1 == PyInsert(ls.list, index, value) IN
    [ls EXCEPT !.list = list1,
               !.events = @ \o <<ListEvent("inserting", index, 0, ls.list),
                                  ListEvent("inserted", index, value, list1)>>]

SetListState(ls) ==
    /\ _list' = ls.list
    /\ events' = ls.events
    /\ listRaised' = ls.raised

\* L.insert(index, value).
insert(index, value) ==
    /\ Len(_list) < MaxListLen
    /\ SetListState(Insert(ListState, index, value))
    /\ UNCHANGED <<cacheVars, loaderVars, octVars, readVars, otherVars>>

\* del L[key].
delitem(key) ==
    /\ SetListState(DelItem(ListState, key))
    /\ UNCHANGED <<cacheVars, loaderVars, octVars, readVars, otherVars>>

\* del L[key] on a list nothing has been deleted from, the list and the key
\* noted.
delitem_once(key) ==
    /\ ~lastDel.called
    /\ SetListState(DelItem(ListState, key))
    /\ lastDel' = [called |-> TRUE, list |-> _list, key |-> key]
    /\ UNCHANGED <<cacheVars, loaderVars, octVars, readVars, syncBlocks, sliceVars, nestVars>>

\* ---------------------------------------------------- NestableEventedList
\* A parent list whose items are child lists; the children's emitters are
\* connected to the parent's _bubble_event. An int index i is written as the
\* tuple <<i>> that _ensure_tuple_index makes of it.
\* hasattr(event, 'index') and hasattr(event, 'new_index'), by event type.
HasIndex(type) == type # "reordered"

HasNewIndex(type) == type \in {"moving", "moved"}

NestEvent(type, index, new_index) ==
    [type |-> type, index |-> index, new_index |-> new_index]

\* NestableEventedList._bubble_event(event), source_index being
\* self.index(event.source): the event the parent emits.
\*     for attr in ('index', 'new_index'):
\*         if hasattr(event, attr):
\*             cur_index = self._ensure_tuple_index(event.index)
\*             setattr(event, attr, (source_index,) + cur_index)
BubbleEvent(event, source_index) ==
    LET e1 == IF HasIndex(event.type)
              THEN [event EXCEPT !.index = <<source_index>> \o event.index]
              ELSE event
    IN  IF HasNewIndex(event.type)
        THEN [e1 EXCEPT !.new_index = <<source_index>> \o e1.index]
        ELSE e1

\* The parent's listeners' view of a call on child s (from 1) that emitted
\* evs: source_index is the child's position in the parent, from 0.
Bubble(s, evs) ==
    [i \in 1..Len(evs) |->
        [source_index |-> s - 1, child |-> evs[i], parent |-> BubbleEvent(evs[i], s - 1)]]

\* parent.insert(index, []): the new child's emitters are connected. The
\* parent's own events have event.source == self and are not bubbled.
insert_child(index) ==
    /\ Len(nested) < MaxChildren
    /\ nested' = PyInsert(nested, index, <<>>)
    /\ bubbled' = <<>>
    /\ UNCHANGED <<cacheVars, loaderVars, octVars, listVars, readVars, syncBlocks, sliceVars, lastDel>>

\* parent[s].insert(index, value).
child_insert(s, index, value) ==
    /\ Len(nested[s]) < MaxChildLen
    /\ nested' = [nested EXCEPT ![s] = PyInsert(@, index, value)]
    /\ bubbled' = Bubble(s, <<NestEvent("inserting", <<index>>, <<>>),
                               NestEvent("inserted", <<index>>, <<>>)>>)
    /\ UNCHANGED <<cacheVars, loaderVars, octVars, listVars, readVars, syncBlocks, sliceVars, lastDel>>

\* del parent[s][index], index an int the child has.
child_delitem(s, index) ==
    /\ ValidIndex(nested[s], index)
    /\ LET i == DelitemIndices(nested[s], [kind |-> "int", start |-> <<index>>,
                                              stop |-> PyNone, step |-> PyNone])[1]
       IN  /\ nested' = [nested EXCEPT ![s] = PyPop(@, i)]
           /\ bubbled' = Bubble(s, <<NestEvent("removing", <<i>>, <<>>),
                                      NestEvent("removed", <<i>>, <<>>)>>)
    /\ UNCHANGED <<cacheVars, loaderVars, octVars, listVars, readVars, syncBlocks, sliceVars, lastDel>>

\* parent[s].move(old_index, new_index), NestableEventedList.move with two
\* ints: nothing happens when the item would stay where it is, otherwise the
\* events carry the arguments as they were passed.
child_move(s, old_index, new_index) ==
    LET dest_i == IF new_index > old_index THEN new_index - 1 ELSE new_index
        value == PyItem(nested[s], old_index)
    IN  /\ 0 <= old_index /\ old_index < Len(nested[s])
        /\ 0 <= new_index /\ new_index <= Len(nested[s])
        /\ IF old_index = dest_i
           THEN /\ nested' = nested
                /\ bubbled' = <<>>
           ELSE /\ nested' = [nested EXCEPT
                                  ![s] = PyInsert(PyPop(@, old_index), dest_i, value)]
                /\ bubbled' = Bubble(s, <<NestEvent("moving", <<old_index>>, <<new_index>>),
                                           NestEvent("moved", <<old_index>>, <<new_index>>),
                                           NestEvent("reordered", <<>>, <<>>)>>)
        /\ UNCHANGED <<cacheVars, loaderVars, octVars, listVars, readVars, syncBlocks, sliceVars, lastDel>>

\* -------------------------------------------------- read_data_with_plugins
\* What an implementation of napari_get_reader does with the path: it returns
\* None, or a reader function that returns layer data, or one that raises.
ReaderKinds == {"declines", "reads", "raises"}

\* The state of one call: the local skip_impls and what was returned; value 0
\* is None, value i the layer data of the reader of implementation i.
ReadState == [skip_impls |-> skip_impls, readerCalls |-> readerCalls, out |-> readOut]

\* plugin_manager.hook.napari_get_reader(path, _return_impl=True,
\* _skip_impls=skip): the first implementation, in call order, that is not
\* skipped and returns a reader; 0 when there is none (reader is None).
GetReader(skip) ==
    LET able == {i \in 1..Len(impls) : ~InSeq(i, skip) /\ impls[i] # "declines"} IN
    IF able = {} THEN 0 ELSE CHOOSE i \in able : \A j \in able : i <= j

\* A loop turn that does not note the implementation whose reader raised.
ReadTurnNoSkip(rs) ==
    LET i == GetReader(rs.skip_impls) IN
    IF i = 0 THEN [rs EXCEPT !.out = [pc |-> "done", value |-> 0, raised |-> FALSE]]
    ELSE LET called == [rs EXCEPT !.readerCalls[i] = @ + 1] IN
         IF impls[i] = "reads"
         THEN [called EXCEPT !.out = [pc |-> "done", value |-> i, raised |-> FALSE]]
         ELSE called

\* One turn of the "while True" loop of read_data_with_plugins.
ReadTurn(rs) ==
    LET i == GetReader(rs.skip_impls) IN
    IF i = 0 THEN [rs EXCEPT !.out = [pc |-> "done", value |-> 0, raised |-> FALSE]]
    ELSE LET called == [rs EXCEPT !.readerCalls[i] = @ + 1] IN
         IF impls[i] = "reads"
         THEN [called EXCEPT !.out = [pc |-> "done", value |-> i, raised |-> FALSE]]
         ELSE [called EXCEPT !.skip_impls = Append(@, i)]   \* except Exception

\* read_data_with_plugins(path) runs one more turn of its loop.
read_data_with_plugins ==
    LET rs == ReadTurn(ReadState) IN
    /\ readOut.pc = "loop"
    /\ \A i \in 1..Len(impls) : readerCalls[i] < MaxReaderCalls
    /\ skip_impls' = rs.skip_impls
    /\ readerCalls' = rs.readerCalls
    /\ readOut' = rs.out
    /\ UNCHANGED <<cacheVars, loaderVars, octVars, listVars, impls, otherVars>>

\* ---------------------------------------------------------- specifications
\* No read_data_with_plugins call is under way.
ReadIdle ==
    /\ impls = <<>>
    /\ skip_impls = <<>>
    /\ readerCalls = <<>>
    /\ readOut = [pc |-> "done", value |-> 0, raised |-> FALSE]

\* No synchronous_loading block has been entered.
BlocksIdle == [stack |-> <<>>, ended |-> "none", before |-> FALSE]

\* OctreeMultiscaleSlice.__init__: self._octree_level = 0.
SliceIdle ==
    /\ _octree_level = 0
    /\ lastVisible = [called |-> FALSE]

\* NestableEventedList(): no child list yet.
NestIdle ==
    /\ nested = <<>>
    /\ bubbled = <<>>

\* The components the specification at hand leaves alone.
OtherIdle ==
    /\ syncBlocks = BlocksIdle
    /\ SliceIdle
    /\ lastDel = [called |-> FALSE]
    /\ NestIdle

\* EventedList(): an empty list that has emitted nothing.
ListIdle ==
    /\ _list = <<>>
    /\ events = <<>>
    /\ listRaised = "none"

\* Chunk sizes of the loader's runs: index 1 holds chunks that fit, two of
\* which do not fit together, index 2 chunks larger than the whole cache.
LoaderSizes == [i \in Indices |-> IF i = 1 THEN CacheCapacity - 2 ELSE MaxNbytes]

OctIdle ==
    /\ octree = [loc \in Grid |-> NoChunk]
    /\ loads = [loc \in Grid |-> "none"]
    /\ _futures = {}
    /\ _last_drawable = <<>>
    /\ lastPass = [raised |-> "none", rootBefore |-> FALSE, unwanted |-> {},
                   lost |-> {}, syncIdeal |-> {}]
    /\ cancelRun = CancelIdle

InitCache ==
    /\ chunks = <<>>
    /\ cacheRaised = FALSE
    /\ recency = <<>>
    /\ nbytes \in [Indices -> 0..MaxNbytes]
    /\ LoaderInit
    /\ OctIdle
    /\ ListIdle
    /\ ReadIdle
    /\ OtherIdle
    /\ octData = "lazy"

NextCache ==
    \/ \E key \in Keys : add_chunk(key)
    \/ \E key \in Keys : get_chunk(key)

SpecCache == InitCache /\ [][NextCache]_vars

Init ==
    /\ chunks = <<>>
    /\ cacheRaised = FALSE
    /\ recency = <<>>
    /\ nbytes = LoaderSizes
    /\ LoaderInit
    /\ OctIdle
    /\ ListIdle
    /\ ReadIdle
    /\ OtherIdle
    /\ octData = "lazy"

Next ==
    \/ \E l \in LayerIds, i \in Indices, a \in ArrayKinds : load_chunk(l, i, a)
    \/ \E r \in 1..Len(requests) : Start(r)
    \/ \E r \in 1..Len(requests) : WorkerFinish(r)
    \/ \E l \in LayerIds : DeleteLayer(l)
    \/ \E b \in BOOLEAN : SetSynchronous(b)

Spec == Init /\ [][Next]_vars

\* The ChunkLoader in asynchronous mode with one layer whose data is a lazy
\* array that loads without error.
InitAsync ==
    /\ chunks = <<>>
    /\ cacheRaised = FALSE
    /\ recency = <<>>
    /\ nbytes = LoaderSizes
    /\ synchronous = FALSE
    /\ requests = <<>>
    /\ futures = [d \in {DataId(l) : l \in LayerIds} |-> <<>>]
    /\ layer_map = {}
    /\ alive = LayerIds
    /\ chunk_loaded = <<>>
    /\ lastCall = [req |-> 0]
    /\ OctIdle
    /\ ListIdle
    /\ ReadIdle
    /\ OtherIdle
    /\ octData = "lazy"

NextAsync ==
    \/ \E i \in Indices : load_chunk_within(MaxAsyncRequests, 1, i, "lazy")
    \/ \E r \in 1..Len(requests) : Start(r)
    \/ \E r \in 1..Len(requests) : WorkerFinish(r)

SpecAsync == InitAsync /\ [][NextAsync]_vars

\* The ChunkLoader in asynchronous mode, thread step by thread step.
InitThreads == InitAsync

NextThreads ==
    \/ \E i \in Indices : GuiEntersGet(1, i)
    \/ \E r \in 1..Len(requests) : GuiLeavesGet(r)
    \/ \E r \in 1..Len(requests) : Start(r)
    \/ \E r \in 1..Len(requests) : CallbackEntersAdd(r)
    \/ \E r \in 1..Len(requests) : CallbackLeavesAdd(r)

SpecThreads == InitThreads /\ [][NextThreads]_vars

\* A selection pass in asynchronous mode has reached its call of
\* _cancel_futures: the loads it and earlier passes queued have their future
\* saved in _futures, and the executor may start and finish them while the
\* call runs.
InitRace ==
    /\ chunks = <<>>
    /\ cacheRaised = FALSE
    /\ recency = <<>>
    /\ nbytes = LoaderSizes
    /\ synchronous = FALSE
    /\ requests = <<>>
    /\ futures = [d \in {DataId(l) : l \in LayerIds} |-> <<>>]
    /\ layer_map = {}
    /\ alive = LayerIds
    /\ chunk_loaded = <<>>
    /\ lastCall = [req |-> 0]
    /\ ListIdle
    /\ ReadIdle
    /\ OtherIdle
    /\ octData = "lazy"
    /\ _futures \in SUBSET Grid
    /\ loads = [loc \in Grid |-> IF loc \in _futures THEN "PENDING" ELSE "none"]
    /\ octree = [loc \in Grid |->
                    IF loc \in _futures
                    THEN [exists |-> TRUE, in_memory |-> FALSE, loading |-> TRUE]
                    ELSE NoChunk]
    /\ _last_drawable = <<>>
    /\ lastPass = [raised |-> "none", rootBefore |-> FALSE, unwanted |-> {},
                   lost |-> {}, syncIdeal |-> {}]
    /\ cancelRun = CancelIdle

NextRace ==
    \/ CancelBegins
    \/ CancelCalls
    \/ CancelDeletes
    \/ CancelReturns
    \/ \E loc \in Grid : OctStart(loc)
    \/ \E loc \in Grid : OctFinish(loc)
    \/ \E loc \in Grid : OctFail(loc)

SpecRace == InitRace /\ [][NextRace]_vars

\* CHUNK_LOADER.synchronous is what _get_synchronous_default() made it; code
\* enters and leaves synchronous_loading blocks.
InitBlocks ==
    /\ chunks = <<>>
    /\ cacheRaised = FALSE
    /\ recency = <<>>
    /\ nbytes = LoaderSizes
    /\ synchronous \in BOOLEAN
    /\ requests = <<>>
    /\ futures = [d \in {DataId(l) : l \in LayerIds} |-> <<>>]
    /\ layer_map = {}
    /\ alive = LayerIds
    /\ chunk_loaded = <<>>
    /\ lastCall = [req |-> 0]
    /\ OctIdle
    /\ ListIdle
    /\ ReadIdle
    /\ octData = "lazy"
    /\ syncBlocks = BlocksIdle
    /\ SliceIdle
    /\ lastDel = [called |-> FALSE]
    /\ NestIdle

NextBlocks ==
    \/ \E enabled \in BOOLEAN : EnterBlock(enabled)
    \/ ExitBlock
    \/ BodyRaises

SpecBlocks == InitBlocks /\ [][NextBlocks]_vars

\* An OctreeMultiscaleSlice of the octree; the view changes and the visual
\* asks for the visible chunks, with the level chosen automatically or not.
InitSlice == InitAsync

NextSlice ==
    \E width \in (0 - 2)..MaxWidth, auto_level \in BOOLEAN :
        get_visible_chunks(width, auto_level)

SpecSlice == InitSlice /\ [][NextSlice]_vars

\* EventedList(data) for every data up to MaxListLen items long, and one
\* del L[key] on it.
InitDel ==
    /\ chunks = <<>>
    /\ cacheRaised = FALSE
    /\ recency = <<>>
    /\ nbytes = LoaderSizes
    /\ LoaderInit
    /\ OctIdle
    /\ ReadIdle
    /\ OtherIdle
    /\ octData = "lazy"
    /\ \E n \in 0..MaxListLen : _list \in [1..n -> Items]
    /\ events = <<>>
    /\ listRaised = "none"

NextDel == \E key \in DelKeys : delitem_once(key)

SpecDel == InitDel /\ [][NextDel]_vars

\* A NestableEventedList to which child lists are added and whose children
\* are changed.
InitNest == InitAsync

NextNest ==
    \/ \E index \in 0..MaxChildren : insert_child(index)
    \/ \E s \in 1..Len(nested), index \in 0..MaxChildLen, value \in Items :
          child_insert(s, index, value)
    \/ \E s \in 1..Len(nested), index \in (0 - MaxChildLen)..(MaxChildLen - 1) :
          child_delitem(s, index)
    \/ \E s \in 1..Len(nested), old_index \in 0..(MaxChildLen - 1), new_index \in 0..MaxChildLen :
          child_move(s, old_index, new_index)

SpecNest == InitNest /\ [][NextNest]_vars

InitOctree ==
    /\ chunks = <<>>
    /\ cacheRaised = FALSE
    /\ recency = <<>>
    /\ nbytes = LoaderSizes
    /\ LoaderInit
    /\ OctIdle
    /\ ListIdle
    /\ ReadIdle
    /\ OtherIdle
    /\ octData \in {"ndarray", "lazy"}

NextOctree ==
    \/ \E ideals \in ViewLists : \E drawn_set \in DrawnSets(ideals) :
          get_drawable_chunks(drawn_set, ideals)
    \/ \E loc \in Grid : OctStart(loc)
    \/ \E loc \in Grid : OctFinish(loc)
    \/ \E loc \in Grid : OctFail(loc)
    \/ \E b \in BOOLEAN : SetSynchronous(b)

SpecOctree == InitOctree /\ [][NextOctree]_vars

\* The octree loader with the loading mode and the kind of level data fixed
\* at construction and no failing load: the selection passes, the worker
\* starting a queued load, and the load finishing.
InitCoverage ==
    /\ chunks = <<>>
    /\ cacheRaised = FALSE
    /\ recency = <<>>
    /\ nbytes = LoaderSizes
    /\ synchronous \in BOOLEAN
    /\ requests = <<>>
    /\ futures = [d \in {DataId(l) : l \in LayerIds} |-> <<>>]
    /\ layer_map = {}
    /\ alive = LayerIds
    /\ chunk_loaded = <<>>
    /\ lastCall = [req |-> 0]
    /\ OctIdle
    /\ ListIdle
    /\ ReadIdle
    /\ OtherIdle
    /\ octData \in {"ndarray", "lazy"}

NextCoverage ==
    \/ \E ideals \in ViewLists : \E drawn_set \in DrawnSets(ideals) :
          get_drawable_chunks(drawn_set, ideals)
    \/ \E loc \in Grid : OctStart(loc)
    \/ \E loc \in Grid : OctFinish(loc)

SpecCoverage == InitCoverage /\ [][NextCoverage]_vars

\* The octree loader with asynchronous loads, one chunk that every selection
\* pass has among its ideal chunks, no failing load, and fair scheduling: the
\* viewer keeps calling get_drawable_chunks, a queued load is started by a
\* worker and a started load finishes. The fairness of the pass is
\* WF_vars(StayPass) written out, with StayPassIdle for ~ENABLED <<StayPass>>_vars.
StayIdeal == <<0, 0, 0>>

StayLists == {ideals \in ViewLists : InSeq(StayIdeal, ideals)}

StayPass ==
    \E ideals \in StayLists : \E drawn_set \in DrawnSets(ideals) :
        get_drawable_chunks(drawn_set, ideals)

\* No pass with the staying chunk among its ideal chunks changes anything:
\* <<StayPass>>_vars is not enabled.
StayPassIdle ==
    \A ideals \in StayLists : \A drawn_set \in DrawnSets(ideals) :
        LET sel == Selected(CreateAll(OctState, ideals), drawn_set, ideals) IN
        \A started \in SUBSET QueuedInPass(sel) :
            LET out == FinishPass(sel, ideals, started) IN
            /\ out.chunk = octree
            /\ out.fut = loads
            /\ out.futmap = _futures
            /\ out.last_drawable = _last_drawable
            /\ LastPassOf(out, ideals) = lastPass

InitOctreeStay ==
    /\ chunks = <<>>
    /\ cacheRaised = FALSE
    /\ recency = <<>>
    /\ nbytes = LoaderSizes
    /\ synchronous = FALSE
    /\ requests = <<>>
    /\ futures = [d \in {DataId(l) : l \in LayerIds} |-> <<>>]
    /\ layer_map = {}
    /\ alive = LayerIds
    /\ chunk_loaded = <<>>
    /\ lastCall = [req |-> 0]
    /\ OctIdle
    /\ ListIdle
    /\ ReadIdle
    /\ OtherIdle
    /\ octData = "lazy"

NextOctreeStay ==
    \/ StayPass
    \/ \E loc \in Grid : OctStart(loc)
    \/ \E loc \in Grid : OctFinish(loc)

SpecOctreeStay ==
    /\ InitOctreeStay
    /\ [][NextOctreeStay]_vars
    /\ ([]<>StayPassIdle) \/ ([]<><<StayPass>>_vars)
    /\ \A loc \in Grid : WF_vars(OctStart(loc)) /\ WF_vars(OctFinish(loc))

InitList ==
    /\ chunks = <<>>
    /\ cacheRaised = FALSE
    /\ recency = <<>>
    /\ nbytes = LoaderSizes
    /\ LoaderInit
    /\ OctIdle
    /\ ListIdle
    /\ ReadIdle
    /\ OtherIdle
    /\ octData = "lazy"

NextList ==
    \/ \E index \in KeyInts, value \in Items : insert(index, value)
    \/ \E key \in DelKeys : delitem(key)

SpecList == InitList /\ [][NextList]_vars

\* read_data_with_plugins(path) is called with up to MaxReaders
\* implementations registered: plugin_manager = ..., skip_impls = [].
InitRead ==
    /\ chunks = <<>>
    /\ cacheRaised = FALSE
    /\ recency = <<>>
    /\ nbytes = LoaderSizes
    /\ LoaderInit
    /\ OctIdle
    /\ ListIdle
    /\ OtherIdle
    /\ octData = "lazy"
    /\ \E n \in 0..MaxReaders : impls \in [1..n -> ReaderKinds]
    /\ skip_impls = <<>>
    /\ readerCalls = [i \in 1..Len(impls) |-> 0]
    /\ readOut = [pc |-> "loop", value |-> 0, raised |-> FALSE]

NextRead == read_data_with_plugins

\* The call runs on until it returns.
SpecRead == InitRead /\ [][NextRead]_vars /\ WF_vars(NextRead)

\* ------------------------------------------------------------ cache claims
RECURSIVE SumNbytes(_)
SumNbytes(s) == IF s = <<>> THEN 0 ELSE GetSizeofChunk(Head(s)) + SumNbytes(Tail(s))

\* The longest suffix of a key sequence whose chunks fit in the cache together.
RECURSIVE LongestFit(_)
LongestFit(s) ==
    IF s = <<>> \/ SumNbytes(s) <= CacheCapacity THEN s ELSE LongestFit(Tail(s))

\* C1: after any sequence of add_chunk and get_chunk calls the bytes resident
\* in the cache (the sum of array.nbytes of the payloads) are at most the
\* capacity, and the entry inserted or hit last is resident: an insert that
\* would exceed the capacity evicted until the new entry fitted.
C1_CacheBound ==
    /\ SumNbytes(KeySeq(chunks)) <= CacheCapacity
    /\ CurrSize(chunks) = SumNbytes(KeySeq(chunks))
    /\ recency # <<>> => Last(recency) \in CacheKeys(chunks)

\* An insert had to evict more than one entry to make room.
C1_Witness ==
    /\ Len(recency) >= 3
    /\ Len(chunks) = 1
    /\ Last(recency) \in CacheKeys(chunks)
    /\ CurrSize(chunks) = CacheCapacity

\* C2: eviction is by least-recent access, a get_chunk hit counting as an
\* access: the cache holds exactly the most recently accessed keys that fit
\* together, in access order.
C2_LRUOrder == KeySeq(chunks) = LongestFit(recency)

\* Capacity 5, chunks of 2 bytes: insert A, insert B, get A, insert C leaves
\* {A, C} (the spec's scenario, 1000 and 400 bytes, scaled).
C2_Witness ==
    /\ \A i \in Indices : nbytes[i] = 2
    /\ recency = <<RequestKey(2, 1), RequestKey(1, 1), RequestKey(1, 2)>>
    /\ KeySeq(chunks) = <<RequestKey(1, 1), RequestKey(1, 2)>>

\* C18: add_chunk of a payload larger than the whole cache always ends the
\* same way: it is rejected (ValueError), every entry stays in place and in
\* order, and the cache is within its capacity afterwards.
C18_OversizeRejected ==
    [][\A key \in Keys :
          (GetSizeofChunk(key) > CacheCapacity /\ add_chunk(key)) =>
              /\ cacheRaised'
              /\ chunks' = chunks
              /\ recency' = recency
              /\ CurrSize(chunks') <= CacheCapacity]_vars

\* A payload larger than the cache was rejected while the cache held entries.
C18_Witness ==
    /\ cacheRaised
    /\ chunks # <<>>
    /\ \E i \in Indices : nbytes[i] > CacheCapacity

\* ----------------------------------------------------------- loader claims
Requests == 1..Len(requests)

\* Request r was handed to the executor (a cache miss of an asynchronous load).
Submitted(r) == requests[r].state \in {"PENDING", "RUNNING", "CANCELLED", "FINISHED", "FAILED"}

Unfinished(r) == requests[r].state \in {"PENDING", "RUNNING"}

Notified(r) == \E i \in 1..Len(chunk_loaded) : chunk_loaded[i] = r

CachedObjs == {chunks[i].obj : i \in 1..Len(chunks)}

\* C3: of one data source (data_id) at most one task is pending (queued, not
\* started) at any time: once a later cache miss of the data source has
\* submitted its task, no earlier task of the data source is still pending.
C3_OnePendingPerSource ==
    \A r, q \in Requests :
        (r < q /\ requests[r].data_id = requests[q].data_id /\ Submitted(q))
            => requests[r].state # "PENDING"

\* A queued task was cancelled by the next miss of its data source, whose own
\* task is now the pending one.
C3_Witness ==
    \E r, q \in Requests :
        /\ r < q
        /\ requests[r].data_id = requests[q].data_id
        /\ requests[r].state = "CANCELLED"
        /\ requests[q].state = "PENDING"

C5_SyncNeverPending ==
    (lastCall.req # 0 /\ lastCall.sync) =>
        /\ lastCall.result # "none"
        /\ ~lastCall.submitted
        /\ ~Submitted(lastCall.req)
        /\ requests[lastCall.req].array # "lazy_bad" =>
              /\ lastCall.result = "request"
              /\ requests[lastCall.req].state = "returned"
              /\ requests[lastCall.req].payload = lastCall.req

\* A lazy array was loaded synchronously while the cache held a chunk.
C5_Witness ==
    /\ lastCall.req # 0
    /\ lastCall.sync
    /\ requests[lastCall.req].array = "lazy"
    /\ lastCall.result = "request"
    /\ chunks # <<>>

\* C6: an asynchronous load_chunk for a key that is in the cache returns the
\* satisfied request at once, carrying the very payload object that the
\* earlier, completed load of that key put into the cache, and submits no task.
C6_CacheHit ==
    (/\ lastCall.req # 0
     /\ ~lastCall.sync
     /\ requests[lastCall.req].array # "ndarray"
     /\ lastCall.hit # 0) =>
        /\ lastCall.result = "request"
        /\ ~lastCall.submitted
        /\ requests[lastCall.req].state = "hit"
        /\ requests[lastCall.req].payload = lastCall.hit
        /\ requests[lastCall.hit].key = requests[lastCall.req].key
        /\ requests[lastCall.hit].cached

\* A second asynchronous load of a cached key was satisfied from the cache.
C6_Witness ==
    /\ lastCall.req # 0
    /\ ~lastCall.sync
    /\ requests[lastCall.req].array = "lazy"
    /\ lastCall.hit # 0
    /\ lastCall.hit # lastCall.req
    /\ lastCall.result = "request"

\* C7: chunk_loaded is emitted at most once per request, and only for a request
\* whose task finished without cancellation and whose payload was added to the
\* cache; a cancelled task leaves no cache entry and no notification.
C7_NotifyOnce ==
    \A r \in Requests :
        /\ Cardinality({i \in 1..Len(chunk_loaded) : chunk_loaded[i] = r}) <= 1
        /\ Notified(r) => (requests[r].state = "FINISHED" /\ requests[r].cached)
        /\ requests[r].state = "CANCELLED" =>
              (~requests[r].cached /\ ~Notified(r) /\ r \notin CachedObjs)

\* One task was cancelled, another finished and was notified.
C7_Witness ==
    \E r, q \in Requests :
        /\ requests[r].state = "CANCELLED"
        /\ Notified(q)
        /\ requests[q].cached

\* C8 as stated: a task that finished materialization successfully while its
\* layer was alive has its payload in the cache's history and its chunk_loaded
\* notification emitted, whatever the payload's size.
C8_FinishedIsNotified ==
    \A r \in Requests :
        (requests[r].state = "FINISHED" /\ requests[r].layerAtDone)
            => (requests[r].cached /\ Notified(r))

\* C9: when materialization raises for a request, nothing is cached and no
\* chunk_loaded fires for it, and a later asynchronous load of a key that no
\* successful load has cached misses the cache and submits a fresh task.
C9_FailureNotCached ==
    /\ \A r \in Requests :
          requests[r].array = "lazy_bad" =>
              (~requests[r].cached /\ ~Notified(r) /\ r \notin CachedObjs)
    /\ (/\ lastCall.req # 0
        /\ ~lastCall.sync
        /\ requests[lastCall.req].array # "ndarray"
        /\ ~lastCall.priorCached) =>
            (lastCall.result = "none" /\ lastCall.submitted /\ Submitted(lastCall.req))

\* The task of a key failed and a later load of the key submitted a new task.
C9_Witness ==
    \E r, q \in Requests :
        /\ r < q
        /\ requests[r].key = requests[q].key
        /\ requests[r].state = "FAILED"
        /\ lastCall.req = q
        /\ lastCall.submitted

\* C31: a load_chunk call on the synchronous path (synchronous set, or the
\* array an ndarray) leaves the cache, the futures map and every earlier
\* request as they were, and the request it was called with gets no future.
C31_SyncPathTouchesNothing ==
    [][\A l \in LayerIds, i \in Indices, a \in ArrayKinds :
          (load_chunk(l, i, a) /\ (synchronous \/ a = "ndarray")) =>
              /\ chunks' = chunks
              /\ recency' = recency
              /\ futures' = futures
              /\ \A q \in 1..Len(requests) : requests'[q] = requests[q]
              /\ requests'[Len(requests')].state \in {"returned", "raised"}]_vars

\* An ndarray was loaded in asynchronous mode while a future of its data
\* source was queued.
C31_Witness ==
    /\ lastCall.req # 0
    /\ ~lastCall.sync
    /\ requests[lastCall.req].array = "ndarray"
    /\ \E q \in 1..Len(requests) :
          /\ requests[q].data_id = requests[lastCall.req].data_id
          /\ requests[q].state = "PENDING"
          /\ InSeq(q, futures[requests[q].data_id])

\* The last load_chunk call took the asynchronous path and was a cache hit.
LastCallWasHit ==
    /\ lastCall.req # 0
    /\ ~lastCall.sync
    /\ requests[lastCall.req].array # "ndarray"
    /\ lastCall.result = "request"

C33_CancelledAreRemoved ==
    /\ \A r \in 1..Len(requests) :
          requests[r].state = "CANCELLED" => r \notin SeqRange(futures[requests[r].data_id])
    /\ lastCall.req # 0 => lastCall.dropped = {}

\* The load of request r finished when its layer was gone.
FinishedWithoutLayer(r) == requests[r].state = "FINISHED" /\ ~requests[r].layerAtDone

C35_CacheOneThreadAtATime == Cardinality(InCacheGet \cup InCacheAdd) <= 1

\* The serial steps are the thread steps taken in pairs: entering and leaving
\* the cache lookup at once is _load_async.
ThreadStepsRefineLoadAsync ==
    \A i \in Indices :
        Len(requests) < MaxAsyncRequests =>
            LET st == CreateRequest(LoaderState, 1, i, "lazy")
                r == Len(requests) + 1
            IN  InCacheGet = {} =>
                    LoadAsyncLeave(LoadAsyncEnter(st, r), r) = LoadAsync(st, r)

\* The locations both methods have handled: _cancel_futures is through with
\* the location and on_chunk_loaded has been called for it.
HandledByBoth == {loc \in cancelRun.done : loads[loc] = "FINISHED"}

\* C36: whichever of _cancel_futures and on_chunk_loaded handles a location
\* first, the other finds the future gone and continues: neither raises, and
\* once both have handled the location _futures has no entry for it.
C36_EitherOrderLeavesNoFuture ==
    /\ ~cancelRun.raised
    /\ \A loc \in HandledByBoth : loc \notin _futures

\* on_chunk_loaded came between the snapshot of _cancel_futures and its del:
\* the del found the future gone, and the loop went on to its end.
C36_Witness ==
    /\ cancelRun.pc = "idle"
    /\ \E loc \in HandledByBoth : loc \in cancelRun.missing
    /\ \E loc \in HandledByBoth : loc \notin cancelRun.missing

\* C37: after a synchronous_loading block ends, normally or because its body
\* raised, CHUNK_LOADER.synchronous is what it was before the block; nested
\* blocks restore in last-in-first-out order.
C37_BlockRestoresFlag ==
    syncBlocks.ended # "none" => synchronous = syncBlocks.before

\* What does hold: a block whose body ends normally restores the flag.
C37_NormalExitRestoresFlag ==
    syncBlocks.ended = "normal" => synchronous = syncBlocks.before

\* The levels whose tiles are few enough for the view of the last call.
LevelsWithFewTiles ==
    {i \in 0..(NumLevels - 1) :
        lastVisible.width < max_tiles * TileSize * LevelScale(i)}

\* C38: with auto_level set _get_octree_level returns the smallest level i
\* with (view width / tile_size) / scale_i < 5, the coarsest level when there
\* is none; with auto_level unset it returns the current level and
\* get_visible_chunks leaves the current level as it is. The result is
\* always an index of a level of the octree.
C38_LevelChosen ==
    lastVisible.called =>
        /\ lastVisible.level_index \in 0..(NumLevels - 1)
        /\ _octree_level \in 0..(NumLevels - 1)
        /\ lastVisible.auto_level =>
              IF LevelsWithFewTiles = {}
              THEN lastVisible.level_index = NumLevels - 1
              ELSE /\ lastVisible.level_index \in LevelsWithFewTiles
                   /\ \A i \in LevelsWithFewTiles : lastVisible.level_index <= i
        /\ ~lastVisible.auto_level =>
              /\ lastVisible.level_index = lastVisible.before
              /\ _octree_level = lastVisible.before

\* A view too wide for every level was shown at the coarsest level, and a
\* call with auto_level unset has kept that level for a narrow view.
C38_Witness ==
    /\ lastVisible.called
    /\ ~lastVisible.auto_level
    /\ lastVisible.before = NumLevels - 1
    /\ 0 \in LevelsWithFewTiles

C38_WitnessNoLevel ==
    /\ lastVisible.called
    /\ lastVisible.auto_level
    /\ LevelsWithFewTiles = {}

C38_WitnessMiddle ==
    /\ lastVisible.called
    /\ lastVisible.auto_level
    /\ lastVisible.level_index = 1

\* slice(start, stop, step).indices(n) of Python, step not 0: a bound left
\* out is the end the step starts from or runs to, a negative bound counts
\* from the end, and every bound is clamped to the list.
PySliceIndices(n, key) ==
    LET step == IF key.step = PyNone THEN 1 ELSE key.step[1]
        lower == IF step < 0 THEN 0 - 1 ELSE 0
        upper == IF step < 0 THEN n - 1 ELSE n
        Clamp(b) == IF b < 0 THEN (IF b + n < lower THEN lower ELSE b + n)
                    ELSE (IF b > upper THEN upper ELSE b)
        start == IF key.start = PyNone THEN (IF step < 0 THEN upper ELSE lower)
                 ELSE Clamp(key.start[1])
        stop == IF key.stop = PyNone THEN (IF step < 0 THEN lower ELSE upper)
                ELSE Clamp(key.stop[1])
    IN  SeqRange(PyRange(start, stop, step))

\* A plain Python list after del list[key], key a slice.
PyDelSlice(list, key) ==
    LET gone == PySliceIndices(Len(list), key)
        Keep(i) == (i - 1) \notin gone
    IN  SelectSeq([i \in 1..Len(list) |-> <<i, list[i]>>], LAMBDA p : Keep(p[1]))

Values(pairs) == [i \in 1..Len(pairs) |-> pairs[i][2]]

\* The last call was del L[key] with a slice Python accepts (step not 0).
LastDelWasSlice ==
    /\ lastDel.called
    /\ lastDel.key.kind = "slice"
    /\ lastDel.key.step # <<0>>

\* C39: for every list content and every slice, del L[s] on an EventedList
\* leaves the contents that deleting the slice from a plain list leaves.
C39_SliceDelLikeList ==
    LastDelWasSlice => _list = Values(PyDelSlice(lastDel.list, lastDel.key))

\* The slices for which the two agree: the bounds that are given are not 0
\* and lie within the list, and the step is positive.
PlainSlice ==
    LET key == lastDel.key
        n == Len(lastDel.list)
        Inside(b) == b = PyNone \/ (b[1] # 0 /\ 0 - n <= b[1] /\ b[1] <= n)
    IN  /\ Inside(key.start)
        /\ Inside(key.stop)
        /\ key.step = PyNone \/ key.step[1] > 0

C39_PlainSliceDelLikeList ==
    (LastDelWasSlice /\ PlainSlice) =>
        /\ listRaised = "none"
        /\ _list = Values(PyDelSlice(lastDel.list, lastDel.key))

\* C40: an event bubbled from a child list carries 'index' and, for move
\* events, 'new_index' rewritten relative to the parent: each is the child's
\* position in the parent followed by what the child emitted for that field.
C40_BubbledIndicesRelativeToParent ==
    \A i \in 1..Len(bubbled) :
        LET b == bubbled[i] IN
        /\ HasIndex(b.child.type) =>
              b.parent.index = <<b.source_index>> \o b.child.index
        /\ HasNewIndex(b.child.type) =>
              b.parent.new_index = <<b.source_index>> \o b.child.new_index

\* What does hold: 'index' is rewritten as claimed, for every event type.
C40_BubbledIndexRelativeToParent ==
    \A i \in 1..Len(bubbled) :
        LET b == bubbled[i] IN
        HasIndex(b.child.type) =>
            b.parent.index = <<b.source_index>> \o b.child.index

\* C17 as stated: a task that was executing when a newer load of its data
\* source was submitted (cancel() failed on it) has its result discarded: no
\* chunk_loaded notification is emitted with the superseded request.
C17_SupersededIsDiscarded ==
    \A r \in Requests : requests[r].superseded => ~Notified(r)

\* ----------------------------------------------------------- octree claims
\* C10 as stated: get_drawable_chunks returns a list and raises no exception,
\* for every drawn_set, every ideal_chunks list and every combination of chunk
\* states, with synchronous and with asynchronous loading.
C10_PassNeverRaises == lastPass.raised = "none"

\* C11 as stated: a get_drawable_chunks call that began with the root chunk in
\* memory returns a list, and the root chunk is in it, whatever drawn_set and
\* ideal_chunks were (a call that raises returns no list).
C11_RootAlwaysReturned ==
    lastPass.rootBefore => (lastPass.raised = "none" /\ InSeq(Root, _last_drawable))

\* C12: a location that had a saved future when a pass began and was neither
\* an ideal chunk of the pass nor kept as coverage is gone from _futures after
\* the pass, its future is no longer queued (cancel() was called on it), and
\* it is not in the drawable list of the pass.
C12_StaleCancelled ==
    \A loc \in lastPass.unwanted :
        /\ loc \notin _futures
        /\ loads[loc] # "PENDING"
        /\ ~InSeq(loc, _last_drawable)

\* The queued load of an ideal chunk of one pass was cancelled by the next
\* pass, which looked at another part of the image.
C12_Witness ==
    \E loc \in lastPass.unwanted :
        /\ loads[loc] = "CANCELLED"
        /\ lastPass.raised = "none"
        /\ _last_drawable # <<>>

\* C13 as stated: a chunk whose load was cancelled before it produced data is
\* NOT_LOADED again: its loading flag is cleared and needs_load is true.
C13_CancelledIsNotLoaded ==
    \A loc \in Grid :
        loads[loc] = "CANCELLED" => (~octree[loc].loading /\ NeedsLoad(octree[loc]))

\* C14 as stated: a chunk whose asynchronous load failed is not left in
\* LOADING: needs_load is true again.
C14_FailedIsNotLoaded ==
    \A loc \in Grid :
        loads[loc] = "FAILED" => (~octree[loc].loading /\ NeedsLoad(octree[loc]))

\* C15: no chunk is in memory and loading at once; a chunk that was not
\* created is neither.
C15_OneLifecycleState ==
    \A loc \in Grid :
        /\ ~(octree[loc].in_memory /\ octree[loc].loading)
        /\ ~octree[loc].exists => (~octree[loc].in_memory /\ ~octree[loc].loading)

\* One chunk got its data from a synchronous load, one from an asynchronous
\* load that finished, and a third is loading.
C15_Witness ==
    \E a, b, c \in Grid :
        /\ octree[a].in_memory /\ loads[a] = "none"
        /\ octree[b].in_memory /\ loads[b] = "FINISHED"
        /\ octree[c].loading

\* C16: no selection pass ends in the AssertionError of _load_chunk's entry
\* assertions: _load_chunk is called only on chunks with needs_load, so no load
\* is submitted for a chunk that is in memory or loading.
C16_LoadOnlyWhenNeeded ==
    /\ lastPass.raised # "AssertionError"
    /\ \A loc \in Grid : loads[loc] \in {"PENDING", "RUNNING"} => octree[loc].loading

\* One pass queued the loads of two ideal chunks that share their ancestors,
\* which were loading already.
C16_Witness ==
    /\ loads[<<0, 0, 0>>] = "PENDING"
    /\ loads[<<0, 0, 1>>] = "PENDING"
    /\ octree[<<1, 0, 0>>].loading
    /\ octree[Root].loading
    /\ lastPass.raised = "none"

\* C19: every chunk of the list a selection pass returned is in memory.
C19_ReturnedInMemory ==
    \A i \in 1..Len(_last_drawable) :
        /\ octree[_last_drawable[i]].in_memory
        /\ ~octree[_last_drawable[i]].loading

\* A pass returned the chunks in memory while an ideal chunk was loading.
C19_Witness ==
    /\ lastPass.raised = "none"
    /\ Len(_last_drawable) >= 2
    /\ \E loc \in Grid : octree[loc].loading /\ loads[loc] = "PENDING" /\ loc \in _futures

\* C22 as stated: the stale-cancellation step of a pass calls cancel() on no
\* load whose location the pass selected (permanent chunk, kept family
\* members, ideal chunks): such a load is left outstanding.
C22_SelectedNotCancelled == lastPass.lost = {}

\* C23 as stated: a chunk that every selection pass has among its ideal
\* chunks, whose load does not fail, is eventually in memory and in the list a
\* pass returned, when passes and workers are scheduled fairly.
C23_StayingIdealIsDrawn ==
    <>(octree[StayIdeal].in_memory /\ InSeq(StayIdeal, _last_drawable))

\* C24 as stated: an ideal chunk whose load the last loop of a pass satisfied
\* synchronously is in memory and in the list the pass returned.
C24_SyncIdealReturned ==
    \A loc \in lastPass.syncIdeal :
        /\ octree[loc].in_memory
        /\ lastPass.raised = "none"
        /\ InSeq(loc, _last_drawable)

\* The call is for an ideal chunk that is in memory and drawn.
IdealIsDrawn(c) == c.before.chunk[c.ideal].in_memory /\ c.ideal \in c.drawn_set

\* C25: for an ideal chunk that is in memory and in drawn_set, _get_coverage
\* returns the list of that one chunk; no chunk is created by the call, and
\* loading the returned list starts no load.
C25_DrawnIdealCoversItself ==
    \A c \in CoverageCalls :
        IdealIsDrawn(c) =>
            /\ c.cov.keep = <<c.ideal>>
            /\ c.cov.chunk = c.before.chunk
            /\ c.after.chunk = c.before.chunk
            /\ c.after.fut = c.before.fut
            /\ c.after.loadOrder = c.before.loadOrder

C25_Witness ==
    \E c \in CoverageCalls :
        IdealIsDrawn(c) /\ GetFamily(c.before, c.ideal) # <<>>

\* The family of the call's ideal chunk and the members of it the call kept.
FamilyOf(c) ==
    LET family == GetFamily(c.before, c.ideal) IN {family[i] : i \in 1..Len(family)}

KeptFamily(c) == {c.cov.keep[i] : i \in 1..Len(c.cov.keep)} \ {c.ideal}

\* C26: for an ideal chunk that is not both in memory and drawn, the kept
\* family members are the family members of a coarser level, all of them, and
\* the family members of a finer level whose key is in drawn_set.
C26_KeptFamily ==
    \A c \in CoverageCalls :
        ~IdealIsDrawn(c) =>
            /\ KeptFamily(c) \subseteq FamilyOf(c)
            /\ \A m \in FamilyOf(c) :
                  /\ m[1] > c.ideal[1] => m \in KeptFamily(c)
                  /\ m[1] < c.ideal[1] => (m \in KeptFamily(c) <=> m \in c.drawn_set)

C26_Witness ==
    \E c \in CoverageCalls :
        /\ ~IdealIsDrawn(c)
        /\ \E m \in FamilyOf(c) : m[1] > c.ideal[1]
        /\ \E m \in FamilyOf(c) : m[1] < c.ideal[1] /\ m \in c.drawn_set
        /\ \E m \in FamilyOf(c) : m[1] < c.ideal[1] /\ m \notin c.drawn_set

ChildOfIdeal(loc, ideals) ==
    \E i \in 1..Len(ideals) : loc[1] = ideals[i][1] - 1 /\ Ancestor(loc, 1) = ideals[i]

\* C28: a selection pass neither creates a child of an ideal chunk nor calls
\* _load_chunk for one (the chunk record of the child is untouched and no
\* future is saved for it), and every finer-level chunk a coverage list keeps
\* exists and is in memory.
C28_NoFinerLoad ==
    /\ \A p \in PassResults :
          \A loc \in Grid :
              ChildOfIdeal(loc, p.ideals) =>
                  /\ p.out.chunk[loc] = octree[loc]
                  /\ loc \notin p.out.futmap
                  /\ ~InSeq(loc, p.out.loadOrder)
    /\ \A c \in CoverageCalls :
          \A m \in KeptFamily(c) :
              m[1] < c.ideal[1] =>
                  c.before.chunk[m].exists /\ c.before.chunk[m].in_memory

\* A pass for the ideal chunk (1,0,0) kept its in-memory child (0,0,0), and
\* the other child (0,0,1) does not exist.
C28_Witness ==
    /\ Len(_last_drawable) >= 2
    /\ _last_drawable[2] = <<0, 0, 0>>
    /\ ~octree[<<0, 0, 1>>].exists
    /\ lastPass.raised = "none"

\* The first occurrences of the elements of a sequence, in order.
RECURSIVE FirstOccurrences(_)
FirstOccurrences(seq) ==
    IF seq = <<>> THEN <<>>
    ELSE LET front == FirstOccurrences(SubSeq(seq, 1, Len(seq) - 1))
             last == seq[Len(seq)]
         IN  IF InSeq(last, front) THEN front ELSE Append(front, last)

IsPrefix(a, b) == Len(a) <= Len(b) /\ SubSeq(b, 1, Len(a)) = a

\* The ancestors a pass looks at, ideal chunk by ideal chunk: none for an
\* ideal chunk that is in memory and drawn.
RECURSIVE CoverageAncestors(_, _)
CoverageAncestors(ideals, drawn_set) ==
    IF ideals = <<>> THEN <<>>
    ELSE (IF octree[Head(ideals)].in_memory /\ Head(ideals) \in drawn_set
          THEN <<>> ELSE AncestorLocs(Head(ideals), NUM_ANCESTORS_LEVELS))
         \o CoverageAncestors(Tail(ideals), drawn_set)

\* The order the claim gives: root, ancestors per ideal chunk, ideal chunks;
\* of these the chunks that need a load when the pass begins, each once.
ExpectedLoads(ideals, drawn_set) ==
    FirstOccurrences(SelectSeq(<<Root>> \o CoverageAncestors(ideals, drawn_set) \o ideals,
                               LAMBDA loc : NeedsLoad(octree[loc])))

\* C29: the chunks a pass calls _load_chunk with are, in order, the root, the
\* ancestors of each ideal chunk in list order, and the ideal chunks, each if
\* it needs a load (all of them when the pass returns, a prefix when it
\* raises); the loads before the cancellation are those of the root and of
\* ancestors, and an ideal chunk's load, started after the cancellation, is
\* still saved and not cancelled when the pass ends.
C29_LoadOrder ==
    \A p \in PassResults :
        LET expected == ExpectedLoads(p.ideals, p.drawn_set)
            coverage == <<Root>> \o CoverageAncestors(p.ideals, p.drawn_set)
        IN  /\ IsPrefix(p.out.loadOrder, expected)
            /\ p.out.raised = "none" => p.out.loadOrder = expected
            /\ IsPrefix(p.sel.loadOrder, p.out.loadOrder)
            /\ \A i \in 1..Len(p.sel.loadOrder) : InSeq(p.sel.loadOrder[i], coverage)
            /\ \A i \in (Len(p.sel.loadOrder) + 1)..Len(p.out.loadOrder) :
                  /\ InSeq(p.out.loadOrder[i], p.ideals)
                  /\ ~LoaderSatisfies =>
                        /\ p.out.loadOrder[i] \in p.out.futmap
                        /\ p.out.fut[p.out.loadOrder[i]] = "PENDING"

\* A pass that loads the root, an ancestor and two ideal chunks.
C29_Witness ==
    \E p \in PassResults :
        /\ p.out.raised = "none"
        /\ Len(p.sel.loadOrder) >= 2
        /\ Len(p.out.loadOrder) >= Len(p.sel.loadOrder) + 2

\* The chunks a pass selects that are in memory when _load_and_add has dealt
\* with them, in the order of selection: the permanent chunk, then the
\* coverage of each ideal chunk.
RECURSIVE InMemoryOf(_)
InMemoryOf(steps) ==
    IF steps = <<>> THEN <<>> ELSE Head(steps).after.memory \o InMemoryOf(Tail(steps))

SelectionOrder(ideals, drawn_set) ==
    CoverStart(ideals).memory
        \o InMemoryOf(CoverSteps(CoverStart(ideals), drawn_set, ideals))

\* C30: the list a pass saves and returns holds no chunk twice, and its
\* order is that of the first selection of each chunk.
C30_DrawableOnceInOrder ==
    \A p \in PassResults :
        p.out.raised = "none" =>
            /\ \A i, j \in 1..Len(p.out.last_drawable) :
                  p.out.last_drawable[i] = p.out.last_drawable[j] => i = j
            /\ p.out.last_drawable = FirstOccurrences(SelectionOrder(p.ideals, p.drawn_set))

\* A pass returned two ideal chunks that share the ancestor (1,0,0) and the root.
C30_Witness ==
    /\ lastPass.raised = "none"
    /\ _last_drawable = <<Root, <<1, 0, 0>>, <<0, 0, 0>>, <<0, 0, 1>>>>

\* ------------------------------------------------------------- list claims
\* C20 as stated: the events of insert and __delitem__ bracket the mutation.
\* 'inserting'(index) is emitted before the item is in the list and is
\* followed by 'inserted'(index, value) with the item in the list;
\* 'removing'(index) is emitted while the item is at index and is followed by
\* 'removed'(index, value), value being that item and the item gone: one pair
\* per item, and no event outside a pair.
C20_EventsBracket ==
    /\ Len(events) % 2 = 0
    /\ \A i \in 1..Len(events) :
          LET e == events[i] IN
          /\ e.type \in {"inserting", "removing"} <=> i % 2 = 1
          /\ (e.type \in {"inserting", "removing"} /\ i < Len(events)) =>
                LET f == events[i + 1] IN
                /\ f.index = e.index
                /\ e.type = "inserting" =>
                      /\ f.type = "inserted"
                      /\ Len(f.snap) = Len(e.snap) + 1
                      /\ f.snap = PyInsert(e.snap, e.index, f.value)
                /\ e.type = "removing" =>
                      /\ f.type = "removed"
                      /\ ValidIndex(e.snap, e.index)
                      /\ f.value = PyItem(e.snap, e.index)
                      /\ f.snap = PyPop(e.snap, e.index)

\* ------------------------------------------------------------- read claims
ReadSafe ==
    /\ \A i \in 1..Len(impls) : readerCalls[i] <= 1
    /\ \A k \in 1..Len(skip_impls) :
          impls[skip_impls[k]] = "raises" /\ readerCalls[skip_impls[k]] = 1
    /\ ~readOut.raised
    /\ (readOut.pc = "done" /\ readOut.value # 0) =>
          /\ impls[readOut.value] = "reads"
          /\ readerCalls[readOut.value] = 1
          /\ \A j \in 1..Len(impls) :
                /\ j < readOut.value => impls[j] # "reads"
                /\ j > readOut.value => readerCalls[j] = 0
    /\ (readOut.pc = "done" /\ readOut.value = 0) =>
          \A j \in 1..Len(impls) :
              /\ impls[j] # "reads"
              /\ impls[j] = "raises" => (readerCalls[j] = 1 /\ InSeq(j, skip_impls))

====
